---- MODULE Spec2Model ----
(***************************************************************************)
(* Request-execution core of the ekoDB Go client (client.go):              *)
(*   - the shared token, written by refreshToken and read by every         *)
(*     makeRequestWithRetry, with no lock around either access;            *)
(*   - the retry / replay state machine of makeRequestWithRetry, its       *)
(*     sleeps and the errors it returns;                                   *)
(*   - the rate-limit snapshot (extractRateLimitInfo, IsNearLimit);        *)
(*   - construction (NewClientWithConfig);                                 *)
(*   - the convenience methods Exists and Upsert;                          *)
(*   - the per-path choice of wire format (shouldUseJSON, unmarshal).      *)
(***************************************************************************)
EXTENDS Integers, Sequences, FiniteSets, TLC

(* ------------------------------ bounds --------------------------------- *)
NumCallers == 2        \* goroutines using one client
MaxCalls == 2          \* logical calls made one after another in Spec
MaxRetriesCfg == 2     \* ClientConfig.MaxRetries ranges over 0..MaxRetriesCfg
MaxSegs == 3           \* segments of an arbitrary request path
MaxProbe == 3          \* limits drawn above each quotient, in tens

(* ------------------------- program constants --------------------------- *)
MessagePack == 0
JSON == 1
DefaultMaxRetries == 3
StatusOK == 200
StatusMultipleChoices == 300
StatusUnauthorized == 401
StatusNotFound == 404
StatusTooManyRequests == 429
StatusInternalServerError == 500
StatusServiceUnavailable == 503
Second == 1000000000            \* time.Second, in nanoseconds
NetworkRetryDelay == 3          \* seconds slept before a transport retry
ServiceUnavailableDelay == 10   \* seconds slept before a 503 retry
DefaultRetryAfter == 60         \* retryAfter when Retry-After gives no int

Callers == 1..NumCallers
Formats == {MessagePack, JSON}

(* A Go string is a two-word header (data pointer, length).  A token value *)
(* is modelled by the pair of the token each word belongs to: <<k, k>> is  *)
(* the complete k-th token, <<j, k>> with j # k is a torn value.  Token 0  *)
(* is the one fetched by NewClientWithConfig, token k >= 1 the one issued  *)
(* by the k-th later POST to /api/auth/token.                              *)
Whole(k) == <<k, k>>
IsWhole(t) == t[1] = t[2]

Last(s) == s[Len(s)]

(* --------------------------- integer arithmetic ------------------------ *)
(* So that no value is cut to the width of the model checker's integers, a *)
(* natural number is the sequence of its binary digits, least significant  *)
(* first and without high zeros.  A Go int or int64 is its sign and the    *)
(* digits of its magnitude; arithmetic on it wraps at IntWidth bits.       *)
IntWidth == 64

RECURSIVE Bits(_)
Bits(n) == IF n = 0 THEN <<>> ELSE <<n % 2>> \o Bits(n \div 2)

RECURSIVE Trim(_)
Trim(a) ==
    IF a = <<>> THEN <<>>
    ELSE IF a[Len(a)] = 0 THEN Trim(SubSeq(a, 1, Len(a) - 1)) ELSE a

BitAt(a, i) == IF i <= Len(a) THEN a[i] ELSE 0

RECURSIVE AddFrom(_, _, _, _)
AddFrom(a, b, i, carry) ==
    IF i > Len(a) /\ i > Len(b)
    THEN IF carry = 1 THEN <<1>> ELSE <<>>
    ELSE LET s == BitAt(a, i) + BitAt(b, i) + carry
         IN  <<s % 2>> \o AddFrom(a, b, i + 1, s \div 2)

Add(a, b) == AddFrom(a, b, 1, 0)

ShiftLeft(a, k) == IF a = <<>> THEN <<>> ELSE [i \in 1..k |-> 0] \o a

\* Carry propagation over column sums c, from column i on.
RECURSIVE Carry(_, _, _)
Carry(c, i, carry) ==
    IF i > Len(c) THEN Bits(carry)
    ELSE LET s == c[i] + carry
         IN  <<s % 2>> \o Carry(c, i + 1, s \div 2)

\* Long multiplication: column k sums the products a[i] * b[k + 1 - i].
Mul(a, b) ==
    IF a = <<>> \/ b = <<>> THEN <<>>
    ELSE LET column(k) ==
                 Cardinality({i \in 1..Len(a) :
                                 /\ a[i] = 1
                                 /\ k + 1 - i \in 1..Len(b)
                                 /\ b[k + 1 - i] = 1})
         IN  Trim(Carry([k \in 1..(Len(a) + Len(b)) |-> column(k)], 1, 0))

RECURSIVE LessFrom(_, _, _)
LessFrom(a, b, i) ==
    IF i = 0 THEN FALSE
    ELSE IF a[i] # b[i] THEN a[i] < b[i] ELSE LessFrom(a, b, i - 1)

Less(a, b) ==
    IF Len(a) # Len(b) THEN Len(a) < Len(b) ELSE LessFrom(a, b, Len(a))

Leq(a, b) == ~Less(b, a)

GoInt(neg, mag) == [neg |-> neg, mag |-> mag]
Zero == GoInt(FALSE, <<>>)
IntOf(n) == GoInt(FALSE, Bits(n))
MaxInt == GoInt(FALSE, [i \in 1..(IntWidth - 1) |-> 1])
MinInt == GoInt(TRUE, ShiftLeft(<<1>>, IntWidth - 1))

\* The model checker's integer for a small int.
RECURSIVE NatValue(_)
NatValue(a) == IF a = <<>> THEN 0 ELSE a[1] + 2 * NatValue(Tail(a))
IntValue(g) == IF g.neg THEN 0 - NatValue(g.mag) ELSE NatValue(g.mag)

\* The low IntWidth bits of a, the two's-complement word of an int and the
\* int such a word stands for.
Word(a) == [i \in 1..IntWidth |-> BitAt(a, i)]
Complement(w) == [i \in 1..Len(w) |-> 1 - w[i]]
ToWord(g) ==
    IF g.neg THEN Word(Add(Complement(Word(g.mag)), <<1>>)) ELSE Word(g.mag)
FromWord(w) ==
    IF w[IntWidth] = 1
    THEN GoInt(TRUE, Trim(Add(Complement(w), <<1>>)))
    ELSE GoInt(FALSE, Trim(w))

\* a * b in Go: the low IntWidth bits of the product
MulInt(a, b) == FromWord(Word(Mul(Trim(ToWord(a)), Trim(ToWord(b)))))

(* ------------------------------ strconv.Atoi --------------------------- *)
(* A header value is the sequence of its characters; <<>> is what          *)
(* Header.Get returns for an absent header.  Atoi accepts an optional sign *)
(* followed by one or more decimal digits.  On other input it returns 0    *)
(* and an error; on digits that stand for a value outside the int range it *)
(* returns the nearest end of the range and an error.                      *)
DigitChars == <<"0", "1", "2", "3", "4", "5", "6", "7", "8", "9">>
IsDigit(c) == \E d \in 1..10 : DigitChars[d] = c
DigitVal(c) == (CHOOSE d \in 1..10 : DigitChars[d] = c) - 1

RECURSIVE ParseDigits(_, _)
ParseDigits(s, acc) ==
    IF s = <<>> THEN acc
    ELSE ParseDigits(Tail(s),
                     Trim(Add(Mul(acc, Bits(10)), Bits(DigitVal(Head(s))))))

Atoi(s) ==
    LET signed == s # <<>> /\ Head(s) \in {"+", "-"}
        neg == signed /\ Head(s) = "-"
        digits == IF signed THEN Tail(s) ELSE s
        syntax == digits # <<>> /\ \A i \in 1..Len(digits) : IsDigit(digits[i])
        mag == IF syntax THEN ParseDigits(digits, <<>>) ELSE <<>>
        inRange == Len(mag) < IntWidth \/ (neg /\ mag = MinInt.mag)
    IN  [val |-> IF ~syntax THEN Zero
                 ELSE IF inRange THEN GoInt(neg /\ mag # <<>>, mag)
                 ELSE IF neg THEN MinInt ELSE MaxInt,
         ok |-> syntax /\ inRange]

(* ------------------------------ responses ------------------------------ *)
(* What httpClient.Do and io.ReadAll hand to makeRequestWithRetry: status  *)
(* 0 stands for a transport error (no response); body tells whether the    *)
(* body contains "Invalid token", could not be read, or does not decode;   *)
(* retryAfter and rl are the Retry-After and X-RateLimit-* header values.  *)
NoRateLimit == [limit |-> <<>>, remaining |-> <<>>, reset |-> <<>>]
Resp(status, body) ==
    [status |-> status, body |-> body, retryAfter |-> <<>>, rl |-> NoRateLimit]
NoResponse == Resp(0, "none")

\* Retry-After values a 429 may carry: an integer, text, a negative
\* integer, and 9223372037, a number of seconds that is more than an int64
\* of nanoseconds can hold.
RetryAfterValues ==
    {<<"2">>, <<"1", "x">>, <<"-", "1">>,
     <<"9", "2", "2", "3", "3", "7", "2", "0", "3", "7">>}

Responses ==
    {NoResponse}
    \cup {Resp(s, "plain") : s \in {StatusOK, StatusUnauthorized,
                                     StatusNotFound, StatusTooManyRequests,
                                     StatusInternalServerError,
                                     StatusServiceUnavailable}}
    \cup {Resp(StatusInternalServerError, "invalid_token"),
          Resp(StatusUnauthorized, "invalid_token"),
          Resp(StatusOK, "unreadable")}
    \cup {[Resp(StatusTooManyRequests, "slow down") EXCEPT !.retryAfter = v] :
            v \in RetryAfterValues}
    \cup {Resp(StatusNotFound, "no such record"),
          Resp(StatusNotFound, "unreadable"),
          Resp(StatusTooManyRequests, "unreadable")}

(* The rate-limit snapshot: Client.rateLimitInfo is nil (set = FALSE) or   *)
(* points to a RateLimitInfo.                                              *)
NoSnapshot == [set |-> FALSE, limit |-> 0, remaining |-> 0, reset |-> 0]
NoErrInfo == [retryAfter |-> Zero, message |-> "none"]
RefreshFailures == {"transport", "status", "decode", "no_token"}

VARIABLES
    clientState,   \* "new" before construction, then "ready" or "failed"
    initFetch,     \* how the constructor's token fetch ended
    configMaxRetries, \* ClientConfig.MaxRetries as the application passed it
    baseURL,       \* Client.baseURL
    apiKey,        \* Client.apiKey
    shouldRetry,   \* Client.shouldRetry
    maxRetries,    \* Client.maxRetries
    format,        \* Client.format
    token,         \* Client.token, as a pair of words
    authPosts,     \* POSTs to /api/auth/token made since construction
    rateLimitInfo, \* Client.rateLimitInfo
    last2xxFull,   \* X-RateLimit-* of the last 2xx response with all three
    lastReadFull,  \* the same among the 2xx responses whose body was read
    calls,         \* logical calls begun
    pc,            \* where each caller is
    role,          \* what each caller is running: "request" or "refresh"
    attempt,       \* the attempt argument of makeRequestWithRetry
    reqTok,        \* token put in the Authorization header of the last build
    newTok,        \* token decoded from the auth response, not yet stored
    hist,          \* responses this logical call has received, in order
    refreshLog,    \* attempt numbers at which this call invoked refreshToken
    sentTok,       \* Authorization token of each request this call sent
    result,        \* what the call returned
    errStatus,     \* HTTPError.StatusCode when result is "HTTPError"
    sleeps,        \* seconds of each time.Sleep this call made, in order
    errInfo,       \* RetryAfterSecs and Message of the returned error
    respBody,      \* the []byte a call returned, "nil" when it returned none
    start,         \* token and snapshot as they were when the call began
    api,           \* convenience method each caller is inside
    apiLog,        \* requests that method has made, with their outcomes
    apiResult,     \* what the method returned
    stored,        \* server side: records held under the upserted id
    pageArgs,      \* page and pageSize each caller passed to Paginate
    query,         \* query Paginate built for Find
    ws,            \* the WebSocketClient: wsURL, token, conn
    wsCall,        \* what the last WebSocket() or FindAll did, in order
    probe,         \* a RateLimitInfo being queried
    verdict,       \* what IsNearLimit and IsExceeded answered for it
    path,          \* path of the request being routed
    lastOp,        \* API method that built the path
    contentType,   \* Content-Type / Accept of the request
    encoding,      \* marshaller used for the request body
    decoding       \* unmarshaller used for the response body

cfgVars == <<clientState, initFetch, configMaxRetries, baseURL, apiKey,
             shouldRetry, maxRetries, format>>
tokVars == <<token, authPosts>>
rlVars == <<rateLimitInfo, last2xxFull, lastReadFull>>
callVars == <<calls, pc, role, attempt, reqTok, newTok, hist, refreshLog,
              sentTok, result, errStatus>>
auxVars == <<sleeps, errInfo, respBody, start>>
pageVars == <<pageArgs, query>>
apiVars == <<api, apiLog, apiResult, stored, pageVars>>
wsVars == <<ws, wsCall>>
limVars == <<probe, verdict>>
routeVars == <<path, lastOp, contentType, encoding, decoding>>
vars == <<cfgVars, tokVars, rlVars, callVars, auxVars, apiVars, limVars,
          routeVars, wsVars>>

\* What makeRequestWithRetry and refreshToken never touch.
restVars == <<limVars, routeVars, wsVars>>

(* ----------------------------- construction ---------------------------- *)
\* NewClientWithConfig: MaxRetries 0 is replaced by the default.
\* Mutant of EffectiveMaxRetries: MaxRetries is stored as it was given.
EffectiveMaxRetriesAsGiven(cfgMax) == cfgMax

EffectiveMaxRetries(cfgMax) ==
    IF cfgMax = 0 THEN DefaultMaxRetries ELSE cfgMax

\* ClientConfig.MaxRetries is an int: negative values are accepted as they
\* are, 0 is replaced by the default.
MaxRetriesConfigs == (0 - 1)..MaxRetriesCfg
BaseURLs == {"http://db"}
APIKeys == {"key"}

\* A client that NewClientWithConfig has returned.
InitClient ==
    /\ clientState = "ready"
    /\ initFetch = "ok"
    /\ baseURL \in BaseURLs
    /\ apiKey \in APIKeys
    /\ shouldRetry \in BOOLEAN
    /\ configMaxRetries \in MaxRetriesConfigs
    /\ maxRetries = EffectiveMaxRetries(configMaxRetries)
    /\ format \in Formats
    /\ token = Whole(0)
    /\ authPosts = 0
    /\ rateLimitInfo = NoSnapshot
    /\ last2xxFull = NoRateLimit
    /\ lastReadFull = NoRateLimit

NoStart == [token |-> Whole(0), rl |-> NoSnapshot]

InitCalls ==
    /\ calls = 0
    /\ pc = [p \in Callers |-> "idle"]
    /\ role = [p \in Callers |-> "none"]
    /\ attempt = [p \in Callers |-> 0]
    /\ reqTok = [p \in Callers |-> Whole(0)]
    /\ newTok = [p \in Callers |-> 0]
    /\ hist = [p \in Callers |-> <<>>]
    /\ refreshLog = [p \in Callers |-> <<>>]
    /\ sentTok = [p \in Callers |-> <<>>]
    /\ result = [p \in Callers |-> "none"]
    /\ errStatus = [p \in Callers |-> 0]
    /\ sleeps = [p \in Callers |-> <<>>]
    /\ errInfo = [p \in Callers |-> NoErrInfo]
    /\ respBody = [p \in Callers |-> "nil"]
    /\ start = [p \in Callers |-> NoStart]

NoApiResult == [returned |-> FALSE, value |-> FALSE, err |-> "none",
                status |-> 0]

NoPageArgs == [called |-> FALSE, page |-> Zero, pageSize |-> Zero]
NoQuery == [built |-> FALSE, limit |-> Zero, skip |-> Zero]

InitApi ==
    /\ api = [p \in Callers |-> "none"]
    /\ apiLog = [p \in Callers |-> <<>>]
    /\ apiResult = [p \in Callers |-> NoApiResult]
    /\ stored = 0
    /\ pageArgs = [p \in Callers |-> NoPageArgs]
    /\ query = [p \in Callers |-> NoQuery]

\* No WebSocketClient has been created, and none of its methods called.
NoWs == [exists |-> FALSE, token |-> Whole(0), conn |-> "nil"]
NoWsCall ==
    [op |-> "none", turn |-> 0, entry |-> "nil", events |-> <<>>,
     err |-> "none"]

InitWs ==
    /\ ws = NoWs
    /\ wsCall = NoWsCall

NoProbe == [limit |-> <<>>, remaining |-> <<>>]
NoVerdict == [asked |-> FALSE, near |-> FALSE, exceeded |-> FALSE]

InitLimit ==
    /\ probe = NoProbe
    /\ verdict = NoVerdict

InitRoute ==
    /\ path = <<>>
    /\ lastOp = "none"
    /\ contentType = "none"
    /\ encoding = "none"
    /\ decoding = "none"

Init == InitClient /\ InitCalls /\ InitApi /\ InitLimit /\ InitRoute /\ InitWs

(* ------------------------- makeRequestWithRetry ------------------------ *)
\* makeRequest: the first attempt of a logical call.
StartRequest(p) ==
    /\ pc[p] = "idle"
    /\ calls' = calls + 1
    /\ pc' = [pc EXCEPT ![p] = "build"]
    /\ role' = [role EXCEPT ![p] = "request"]
    /\ attempt' = [attempt EXCEPT ![p] = 0]
    /\ start' = [start EXCEPT ![p] = [token |-> token, rl |-> rateLimitInfo]]
    /\ UNCHANGED <<reqTok, newTok, hist, refreshLog, sentTok, result, errStatus>>
    /\ UNCHANGED <<sleeps, errInfo, respBody>>
    /\ UNCHANGED <<cfgVars, tokVars, rlVars, restVars>>

\* A request made directly by the application.
BeginCall(p) ==
    /\ StartRequest(p)
    /\ UNCHANGED apiVars

\* json.Marshal / msgpack.Marshal of the body fails: returned before any send.
MarshalError(p) ==
    /\ pc[p] = "build"
    /\ attempt[p] = 0
    /\ pc' = [pc EXCEPT ![p] = "done"]
    /\ result' = [result EXCEPT ![p] = "MarshalError"]
    /\ UNCHANGED <<calls, role, attempt, reqTok, newTok, hist, refreshLog,
                   sentTok, errStatus>>
    /\ UNCHANGED <<cfgVars, tokVars, rlVars, auxVars, apiVars, restVars>>

\* "Bearer "+c.token: the unsynchronised read of the first word of c.token.
LoadTokenPtr(p) ==
    /\ pc[p] = "build"
    /\ reqTok' = [reqTok EXCEPT ![p] = <<token[1], @[2]>>]
    /\ pc' = [pc EXCEPT ![p] = "build2"]
    /\ UNCHANGED <<calls, role, attempt, newTok, hist, refreshLog, sentTok,
                   result, errStatus>>
    /\ UNCHANGED <<cfgVars, tokVars, rlVars, auxVars, apiVars, restVars>>

\* ... and of its second word; the request is then ready to be sent.
LoadTokenLen(p) ==
    /\ pc[p] = "build2"
    /\ reqTok' = [reqTok EXCEPT ![p] = <<@[1], token[2]>>]
    /\ pc' = [pc EXCEPT ![p] = "send"]
    /\ UNCHANGED <<calls, role, attempt, newTok, hist, refreshLog, sentTok,
                   result, errStatus>>
    /\ UNCHANGED <<cfgVars, tokVars, rlVars, auxVars, apiVars, restVars>>

\* The guard every retry branch tests: c.shouldRetry && attempt < c.maxRetries.
\* Mutant of CanRetry.
\* Mutant of CanRetry: the ShouldRetry flag is not consulted.
CanRetryUnasked(a) == a < maxRetries
CanRetryOffByOne(a) == shouldRetry /\ a <= maxRetries
CanRetry(a) == shouldRetry /\ a < maxRetries

IsSuccess(r) == r.status >= StatusOK /\ r.status < StatusMultipleChoices
\* Mutant of IsAuthFailure: every 500 counts, whatever its body.
IsAuthFailureAny500(r) ==
    r.status \in {StatusUnauthorized, StatusInternalServerError}

IsAuthFailure(r) ==
    \/ r.status = StatusUnauthorized
    \/ r.status = StatusInternalServerError /\ r.body = "invalid_token"

HasAllThree(h) == h.limit # <<>> /\ h.remaining # <<>> /\ h.reset # <<>>

\* Bookkeeping common to every outcome of httpClient.Do: one more request
\* went out carrying reqTok, and response r came back.
Sent(p, r) ==
    /\ pc[p] = "send"
    /\ hist' = [hist EXCEPT ![p] = Append(@, r)]
    /\ sentTok' = [sentTok EXCEPT ![p] = Append(@, reqTok[p])]
    /\ last2xxFull' =
          IF IsSuccess(r) /\ HasAllThree(r.rl) THEN r.rl ELSE last2xxFull
    /\ lastReadFull' =
          IF IsSuccess(r) /\ r.body # "unreadable" /\ HasAllThree(r.rl)
          THEN r.rl ELSE lastReadFull

\* Mutant of Retry: the request built for the previous attempt is sent
\* again as it is, Authorization header included.
RetryResend(p) ==
    /\ attempt' = [attempt EXCEPT ![p] = @ + 1]
    /\ pc' = [pc EXCEPT ![p] = "send"]
    /\ UNCHANGED <<result, errStatus, errInfo, respBody>>

\* Re-enter makeRequestWithRetry with attempt+1 (after the sleep, if any).
Retry(p) ==
    /\ attempt' = [attempt EXCEPT ![p] = @ + 1]
    /\ pc' = [pc EXCEPT ![p] = "build"]
    /\ UNCHANGED <<result, errStatus, errInfo, respBody>>

\* strconv.Atoi of each Retry-After value, absent included
RetryAfterAtoi == [s \in RetryAfterValues \cup {<<>>} |-> Atoi(s)]

\* time.Duration(n) * time.Second: an int64 of nanoseconds
Duration(n) == MulInt(n, IntOf(Second))

\* The numbers of seconds makeRequestWithRetry may pass to time.Duration,
\* and the duration of each.
SleepSeconds ==
    {IntOf(NetworkRetryDelay), IntOf(ServiceUnavailableDelay),
     IntOf(DefaultRetryAfter)}
    \cup {RetryAfterAtoi[s].val : s \in DOMAIN RetryAfterAtoi}
DurationOf == [n \in SleepSeconds |-> Duration(n)]

\* time.Sleep(d) returns at once when d is negative or zero.
Slept(d) == IF d.neg THEN Zero ELSE d

\* time.Sleep(time.Duration(secs) * time.Second)
Sleep(p, secs) ==
    sleeps' = [sleeps EXCEPT ![p] = Append(@, Slept(DurationOf[secs]))]

\* return nil, err: the call ends with error res; status is its StatusCode
\* and info its RetryAfterSecs and Message, where the error type has them.
Fail(p, res, status, info) ==
    /\ pc' = [pc EXCEPT ![p] = "done"]
    /\ result' = [result EXCEPT ![p] = res]
    /\ errStatus' = [errStatus EXCEPT ![p] = status]
    /\ errInfo' = [errInfo EXCEPT ![p] = info]
    /\ respBody' = [respBody EXCEPT ![p] = "nil"]
    /\ UNCHANGED <<attempt, sleeps>>

Return(p, res, status) == Fail(p, res, status, NoErrInfo)

\* return respBody, nil
ReturnBody(p, body) ==
    /\ pc' = [pc EXCEPT ![p] = "done"]
    /\ result' = [result EXCEPT ![p] = "ok"]
    /\ errStatus' = [errStatus EXCEPT ![p] = 0]
    /\ errInfo' = [errInfo EXCEPT ![p] = NoErrInfo]
    /\ respBody' = [respBody EXCEPT ![p] = body]
    /\ UNCHANGED <<attempt, sleeps>>

\* Mutant of NetworkError: a transport error is retried once more than
\* the other failures.
NetworkErrorOneMore(p) ==
    /\ Sent(p, NoResponse)
    /\ IF shouldRetry /\ attempt[p] <= maxRetries
       THEN Sleep(p, IntOf(NetworkRetryDelay)) /\ Retry(p)
       ELSE Return(p, "TransportError", 0)
    /\ UNCHANGED <<calls, role, reqTok, newTok, refreshLog, start>>
    /\ UNCHANGED <<cfgVars, tokVars, rateLimitInfo, apiVars, restVars>>

\* Mutant of NetworkError: the retries left are counted down in
\* c.maxRetries.
NetworkErrorCountsDown(p) ==
    /\ Sent(p, NoResponse)
    /\ IF CanRetry(attempt[p])
       THEN /\ Sleep(p, IntOf(NetworkRetryDelay)) /\ Retry(p)
            /\ maxRetries' = maxRetries - 1
       ELSE /\ Return(p, "TransportError", 0)
            /\ UNCHANGED maxRetries
    /\ UNCHANGED <<calls, role, reqTok, newTok, refreshLog, start>>
    /\ UNCHANGED <<clientState, initFetch, configMaxRetries, baseURL, apiKey,
                   shouldRetry, format>>
    /\ UNCHANGED <<tokVars, rateLimitInfo, apiVars, restVars>>

\* httpClient.Do returned an error.
NetworkError(p) ==
    /\ Sent(p, NoResponse)
    /\ IF CanRetry(attempt[p])
       THEN Sleep(p, IntOf(NetworkRetryDelay)) /\ Retry(p)
       ELSE Return(p, "TransportError", 0)
    /\ UNCHANGED <<calls, role, reqTok, newTok, refreshLog, start>>
    /\ UNCHANGED <<cfgVars, tokVars, rateLimitInfo, apiVars, restVars>>

\* io.ReadAll(resp.Body) failed.
\* Mutant of ReadBodyError: the bytes read so far are returned with the error.
ReadBodyErrorPartial(p, r) ==
    /\ r.body = "unreadable"
    /\ Sent(p, r)
    /\ pc' = [pc EXCEPT ![p] = "done"]
    /\ result' = [result EXCEPT ![p] = "ReadError"]
    /\ respBody' = [respBody EXCEPT ![p] = "partial"]
    /\ UNCHANGED <<attempt, sleeps, errStatus, errInfo>>
    /\ UNCHANGED <<calls, role, reqTok, newTok, refreshLog, start>>
    /\ UNCHANGED <<cfgVars, tokVars, rateLimitInfo, apiVars, restVars>>

ReadBodyError(p, r) ==
    /\ r.body = "unreadable"
    /\ Sent(p, r)
    /\ Return(p, "ReadError", 0)
    /\ UNCHANGED <<calls, role, reqTok, newTok, refreshLog, start>>
    /\ UNCHANGED <<cfgVars, tokVars, rateLimitInfo, apiVars, restVars>>

\* Mutant of extractRateLimitInfo: the fields of the RateLimitInfo the
\* client already has are overwritten one by one, and remaining last, after
\* another goroutine may have moved on.
extractRateLimitInfoInPlace(r) ==
    IF HasAllThree(r.rl)
    THEN [set |-> TRUE,
          limit |-> IntValue(Atoi(r.rl.limit).val),
          remaining |-> IF rateLimitInfo.set THEN rateLimitInfo.remaining
                        ELSE IntValue(Atoi(r.rl.remaining).val),
          reset |-> IntValue(Atoi(r.rl.reset).val)]
    ELSE rateLimitInfo

\* Mutant of extractRateLimitInfo: the limit header alone is enough.
extractRateLimitInfoLimitOnly(r) ==
    IF r.rl.limit # <<>>
    THEN [set |-> TRUE,
          limit |-> IntValue(Atoi(r.rl.limit).val),
          remaining |-> IntValue(Atoi(r.rl.remaining).val),
          reset |-> IntValue(Atoi(r.rl.reset).val)]
    ELSE rateLimitInfo

\* extractRateLimitInfo: the value c.rateLimitInfo has afterwards.  The
\* errors of the three Atoi calls are discarded.  (The header values drawn
\* are small, and the snapshot holds them as plain integers.)
extractRateLimitInfo(r) ==
    IF HasAllThree(r.rl)
    THEN [set |-> TRUE,
          limit |-> IntValue(Atoi(r.rl.limit).val),
          remaining |-> IntValue(Atoi(r.rl.remaining).val),
          reset |-> IntValue(Atoi(r.rl.reset).val)]
    ELSE rateLimitInfo

\* 2xx: the snapshot is refreshed and the body returned.
Handle2xx(p, r) ==
    /\ r.body # "unreadable"
    /\ IsSuccess(r)
    /\ Sent(p, r)
    /\ rateLimitInfo' = extractRateLimitInfo(r)
    /\ ReturnBody(p, r.body)
    /\ UNCHANGED <<calls, role, reqTok, newTok, refreshLog, start>>
    /\ UNCHANGED <<cfgVars, tokVars, restVars>>

Success(p, r) ==
    /\ Handle2xx(p, r)
    /\ UNCHANGED apiVars

\* Mutant of RetryAfterOf: an unparseable header gives 0.
RetryAfterOfAtoi(r) == RetryAfterAtoi[r.retryAfter].val

\* retryAfter := 60, replaced by the header's value when Atoi accepts it.
RetryAfterOf(r) ==
    IF r.retryAfter # <<>> /\ RetryAfterAtoi[r.retryAfter].ok
    THEN RetryAfterAtoi[r.retryAfter].val
    ELSE IntOf(DefaultRetryAfter)

\* 429.
RateLimited(p, r) ==
    /\ r.body # "unreadable"
    /\ r.status = StatusTooManyRequests
    /\ Sent(p, r)
    /\ IF CanRetry(attempt[p])
       THEN Sleep(p, RetryAfterOf(r)) /\ Retry(p)
       ELSE Fail(p, "RateLimitError", 0,
                 [retryAfter |-> RetryAfterOf(r), message |-> r.body])
    /\ UNCHANGED <<calls, role, reqTok, newTok, refreshLog, start>>
    /\ UNCHANGED <<cfgVars, tokVars, rateLimitInfo, apiVars, restVars>>

\* Mutant of Unauthorized: the refresh is tried on every attempt that has
\* retries left instead of on attempt 0 only.
UnauthorizedAlwaysRefresh(p, r) ==
    /\ r.body # "unreadable"
    /\ IsAuthFailure(r)
    /\ Sent(p, r)
    /\ IF attempt[p] < maxRetries
       THEN /\ pc' = [pc EXCEPT ![p] = "refresh"]
            /\ refreshLog' = [refreshLog EXCEPT ![p] = Append(@, attempt[p])]
            /\ UNCHANGED <<attempt, result, errStatus, errInfo, respBody,
                           sleeps>>
       ELSE /\ Fail(p, "AuthFailedAfterRefresh", r.status,
                    [retryAfter |-> Zero, message |-> r.body])
            /\ UNCHANGED refreshLog
    /\ UNCHANGED <<calls, role, reqTok, newTok, start>>
    /\ UNCHANGED <<cfgVars, tokVars, rateLimitInfo, apiVars, restVars>>

\* 401, or 500 with "Invalid token" in the body.
Unauthorized(p, r) ==
    /\ r.body # "unreadable"
    /\ IsAuthFailure(r)
    /\ Sent(p, r)
    /\ IF attempt[p] = 0
       THEN /\ pc' = [pc EXCEPT ![p] = "refresh"]
            /\ refreshLog' = [refreshLog EXCEPT ![p] = Append(@, attempt[p])]
            /\ UNCHANGED <<attempt, result, errStatus, errInfo, respBody,
                           sleeps>>
       ELSE /\ Fail(p, "AuthFailedAfterRefresh", r.status,
                    [retryAfter |-> Zero, message |-> r.body])
            /\ UNCHANGED refreshLog
    /\ UNCHANGED <<calls, role, reqTok, newTok, start>>
    /\ UNCHANGED <<cfgVars, tokVars, rateLimitInfo, apiVars, restVars>>

\* Mutant of ServiceUnavailable: a 500 is retried like a 503.
ServiceUnavailableAny5xx(p, r) ==
    /\ r.body # "unreadable"
    /\ r.status \in {StatusServiceUnavailable, StatusInternalServerError}
    /\ ~IsAuthFailure(r)
    /\ CanRetry(attempt[p])
    /\ Sent(p, r)
    /\ Sleep(p, IntOf(ServiceUnavailableDelay))
    /\ Retry(p)
    /\ UNCHANGED <<calls, role, reqTok, newTok, refreshLog, start>>
    /\ UNCHANGED <<cfgVars, tokVars, rateLimitInfo, apiVars, restVars>>

\* 503 while retries remain.
ServiceUnavailable(p, r) ==
    /\ r.body # "unreadable"
    /\ r.status = StatusServiceUnavailable
    /\ CanRetry(attempt[p])
    /\ Sent(p, r)
    /\ Sleep(p, IntOf(ServiceUnavailableDelay))
    /\ Retry(p)
    /\ UNCHANGED <<calls, role, reqTok, newTok, refreshLog, start>>
    /\ UNCHANGED <<cfgVars, tokVars, rateLimitInfo, apiVars, restVars>>

\* Mutant of OtherError: the rate-limit headers of the error response are
\* taken into the snapshot.
OtherErrorExtracts(p, r) ==
    /\ r.body # "unreadable"
    /\ r.status # 0
    /\ ~IsSuccess(r)
    /\ r.status # StatusTooManyRequests
    /\ ~IsAuthFailure(r)
    /\ ~(r.status = StatusServiceUnavailable /\ CanRetry(attempt[p]))
    /\ Sent(p, r)
    /\ rateLimitInfo' = extractRateLimitInfo(r)
    /\ Fail(p, "HTTPError", r.status, [retryAfter |-> Zero, message |-> r.body])
    /\ UNCHANGED <<calls, role, reqTok, newTok, refreshLog, start>>
    /\ UNCHANGED <<cfgVars, tokVars, apiVars, restVars>>

\* Every other response: &HTTPError{StatusCode, Message}.
OtherError(p, r) ==
    /\ r.body # "unreadable"
    /\ r.status # 0
    /\ ~IsSuccess(r)
    /\ r.status # StatusTooManyRequests
    /\ ~IsAuthFailure(r)
    /\ ~(r.status = StatusServiceUnavailable /\ CanRetry(attempt[p]))
    /\ Sent(p, r)
    /\ Fail(p, "HTTPError", r.status, [retryAfter |-> Zero, message |-> r.body])
    /\ UNCHANGED <<calls, role, reqTok, newTok, refreshLog, start>>
    /\ UNCHANGED <<cfgVars, tokVars, rateLimitInfo, apiVars, restVars>>

(* ------------------------------ refreshToken --------------------------- *)
\* A caller that runs refreshToken directly.
BeginRefresh(p) ==
    /\ pc[p] = "idle"
    /\ calls' = calls + 1
    /\ pc' = [pc EXCEPT ![p] = "refresh"]
    /\ role' = [role EXCEPT ![p] = "refresh"]
    /\ refreshLog' = [refreshLog EXCEPT ![p] = Append(@, 0)]
    /\ start' = [start EXCEPT ![p] = [token |-> token, rl |-> rateLimitInfo]]
    /\ UNCHANGED <<attempt, reqTok, newTok, hist, sentTok, result, errStatus>>
    /\ UNCHANGED <<sleeps, errInfo, respBody>>
    /\ UNCHANGED <<cfgVars, tokVars, rlVars, apiVars, restVars>>

\* The POST is answered 200 with {"token": t}: t is the next token.
AuthPostOK(p) ==
    /\ pc[p] = "refresh"
    /\ authPosts' = authPosts + 1
    /\ newTok' = [newTok EXCEPT ![p] = authPosts + 1]
    /\ pc' = [pc EXCEPT ![p] = "store"]
    /\ UNCHANGED <<calls, role, attempt, reqTok, hist, refreshLog, sentTok,
                   result, errStatus>>
    /\ UNCHANGED <<cfgVars, token, rlVars, auxVars, apiVars, restVars>>

\* Mutant of AuthPostFail: the token field is cleared when the refresh fails.
AuthPostFailClears(p, kind) ==
    /\ pc[p] = "refresh"
    /\ authPosts' = authPosts + 1
    /\ token' = Whole(0 - 1)
    /\ Fail(p, "RefreshFailed", 0, [retryAfter |-> Zero, message |-> kind])
    /\ UNCHANGED <<calls, role, reqTok, newTok, hist, refreshLog,
                   sentTok, start>>
    /\ UNCHANGED <<cfgVars, rlVars, apiVars, restVars>>

\* The POST fails (transport error, non-200, undecodable body, no string
\* token): refreshToken returns the error and c.token is not assigned.
\* Inside a request the error is wrapped and returned by the call.
AuthPostFail(p, kind) ==
    /\ pc[p] = "refresh"
    /\ authPosts' = authPosts + 1
    /\ Fail(p, "RefreshFailed", 0, [retryAfter |-> Zero, message |-> kind])
    /\ UNCHANGED <<calls, role, reqTok, newTok, hist, refreshLog,
                   sentTok, start>>
    /\ UNCHANGED <<cfgVars, token, rlVars, apiVars, restVars>>

\* c.token = token: the unsynchronised write of the first word ...
StoreTokenPtr(p) ==
    /\ pc[p] = "store"
    /\ token' = <<newTok[p], token[2]>>
    /\ pc' = [pc EXCEPT ![p] = "store2"]
    /\ UNCHANGED <<calls, role, attempt, reqTok, newTok, hist, refreshLog,
                   sentTok, result, errStatus>>
    /\ UNCHANGED <<cfgVars, authPosts, rlVars, auxVars, apiVars, restVars>>

\* ... and of the second word; refreshToken returns nil.  Inside a request
\* the caller replays with attempt+1 and without sleeping.
StoreTokenLen(p) ==
    /\ pc[p] = "store2"
    /\ token' = <<token[1], newTok[p]>>
    /\ IF role[p] = "request"
       THEN Retry(p) /\ UNCHANGED sleeps
       ELSE Return(p, "ok", 0)
    /\ UNCHANGED <<calls, role, reqTok, newTok, hist, refreshLog, sentTok,
                   start>>
    /\ UNCHANGED <<cfgVars, authPosts, rlVars, apiVars, restVars>>

\* The caller takes the returned value; its next call starts afresh.
EndRequest(p) ==
    /\ pc[p] = "done"
    /\ pc' = [pc EXCEPT ![p] = "idle"]
    /\ role' = [role EXCEPT ![p] = "none"]
    /\ attempt' = [attempt EXCEPT ![p] = 0]
    /\ hist' = [hist EXCEPT ![p] = <<>>]
    /\ refreshLog' = [refreshLog EXCEPT ![p] = <<>>]
    /\ sentTok' = [sentTok EXCEPT ![p] = <<>>]
    /\ result' = [result EXCEPT ![p] = "none"]
    /\ errStatus' = [errStatus EXCEPT ![p] = 0]
    /\ sleeps' = [sleeps EXCEPT ![p] = <<>>]
    /\ errInfo' = [errInfo EXCEPT ![p] = NoErrInfo]
    /\ respBody' = [respBody EXCEPT ![p] = "nil"]
    /\ start' = [start EXCEPT ![p] = NoStart]
    /\ reqTok' = [reqTok EXCEPT ![p] = Whole(0)]
    /\ newTok' = [newTok EXCEPT ![p] = 0]
    /\ UNCHANGED calls
    /\ UNCHANGED <<cfgVars, tokVars, rlVars, restVars>>

Finish(p) ==
    /\ api[p] = "none"
    /\ EndRequest(p)
    /\ UNCHANGED apiVars

(* ------------- Spec: logical calls made one after another -------------- *)
\* No other caller is inside a call.
Alone(p) == \A q \in Callers \ {p} : pc[q] = "idle"

Next ==
    \/ \E p \in Callers : Alone(p) /\ calls < MaxCalls /\ BeginCall(p)
    \/ \E p \in Callers : Alone(p) /\ MarshalError(p)
    \/ \E p \in Callers : Alone(p) /\ LoadTokenPtr(p)
    \/ \E p \in Callers : Alone(p) /\ LoadTokenLen(p)
    \/ \E p \in Callers : Alone(p) /\ NetworkError(p)
    \/ \E p \in Callers, r \in Responses : Alone(p) /\ ReadBodyError(p, r)
    \/ \E p \in Callers, r \in Responses : Alone(p) /\ Success(p, r)
    \/ \E p \in Callers, r \in Responses : Alone(p) /\ RateLimited(p, r)
    \/ \E p \in Callers, r \in Responses : Alone(p) /\ Unauthorized(p, r)
    \/ \E p \in Callers, r \in Responses : Alone(p) /\ ServiceUnavailable(p, r)
    \/ \E p \in Callers, r \in Responses : Alone(p) /\ OtherError(p, r)
    \/ \E p \in Callers : Alone(p) /\ AuthPostOK(p)
    \/ \E p \in Callers, k \in RefreshFailures : Alone(p) /\ AuthPostFail(p, k)
    \/ \E p \in Callers : Alone(p) /\ StoreTokenPtr(p)
    \/ \E p \in Callers : Alone(p) /\ StoreTokenLen(p)
    \/ \E p \in Callers : Alone(p) /\ Finish(p)

Spec == Init /\ [][Next]_vars

\* A step of the call that is under way.  The goroutine that makes the call
\* keeps running, httpClient.Do returns within the client's Timeout and
\* time.Sleep returns, so such a step is taken whenever one is possible.
CallStep == (\E p \in Callers : pc[p] \notin {"idle", "done"}) /\ Next
LiveSpec == Spec /\ WF_vars(CallStep)

(* ------------- ConstructSpec: from construction onwards ---------------- *)
\* The zero value of Client.token.
NoToken == Whole(0 - 1)
Configs ==
    [BaseURL : BaseURLs, APIKey : APIKeys, ShouldRetry : BOOLEAN,
     MaxRetries : MaxRetriesConfigs \cup {DefaultMaxRetries}, Format : Formats]

\* Before NewClient / NewClientWithConfig is called.
InitNew ==
    /\ clientState = "new"
    /\ initFetch = "none"
    /\ configMaxRetries = 0
    /\ baseURL = ""
    /\ apiKey = ""
    /\ shouldRetry = FALSE
    /\ maxRetries = 0
    /\ format = MessagePack
    /\ token = NoToken
    /\ authPosts = 0
    /\ rateLimitInfo = NoSnapshot
    /\ last2xxFull = NoRateLimit
    /\ lastReadFull = NoRateLimit
    /\ InitCalls /\ InitApi /\ InitLimit /\ InitRoute /\ InitWs

\* Mutant of NewClientWithConfig: the client is returned whether or not
\* the token fetch succeeded.
NewClientWithConfigAnyway(config, outcome) ==
    /\ clientState = "new"
    /\ configMaxRetries' = config.MaxRetries
    /\ baseURL' = config.BaseURL
    /\ apiKey' = config.APIKey
    /\ shouldRetry' = config.ShouldRetry
    /\ maxRetries' = EffectiveMaxRetries(config.MaxRetries)
    /\ format' = config.Format
    /\ initFetch' = outcome
    /\ token' = IF outcome = "ok" THEN Whole(0) ELSE token
    /\ clientState' = "ready"
    /\ UNCHANGED <<authPosts, rlVars, callVars, auxVars, apiVars, restVars>>

\* NewClientWithConfig: the Client is filled in from the configuration and
\* refreshToken is run on it; outcome is how that POST ended.  The client
\* is returned only when refreshToken returned nil.
NewClientWithConfig(config, outcome) ==
    /\ clientState = "new"
    /\ configMaxRetries' = config.MaxRetries
    /\ baseURL' = config.BaseURL
    /\ apiKey' = config.APIKey
    /\ shouldRetry' = config.ShouldRetry
    /\ maxRetries' = EffectiveMaxRetries(config.MaxRetries)
    /\ format' = config.Format
    /\ initFetch' = outcome
    /\ token' = IF outcome = "ok" THEN Whole(0) ELSE token
    /\ clientState' = IF outcome = "ok" THEN "ready" ELSE "failed"
    /\ UNCHANGED <<authPosts, rlVars, callVars, auxVars, apiVars, restVars>>

\* NewClient: the legacy signature.
NewClient(url, key, outcome) ==
    NewClientWithConfig([BaseURL |-> url, APIKey |-> key, ShouldRetry |-> TRUE,
                         MaxRetries |-> DefaultMaxRetries,
                         Format |-> MessagePack], outcome)

FetchOutcomes == {"ok"} \cup RefreshFailures

ConstructNext ==
    \/ \E u \in BaseURLs, k \in APIKeys, o \in FetchOutcomes : NewClient(u, k, o)
    \/ \E c \in Configs, o \in FetchOutcomes : NewClientWithConfig(c, o)
    \/ clientState = "ready" /\ Next

ConstructSpec == InitNew /\ [][ConstructNext]_vars

(* ------------------- RateLimitInfo: IsNearLimit, IsExceeded ------------ *)
(* Limit and Remaining are Go ints (64 bits); IsNearLimit converts both to *)
(* float64 and multiplies by the float64 constant 0.1.  So that neither    *)
(* the integers nor the 53-bit significands are cut to the width of the    *)
(* model checker's integers, they are sequences of binary digits, and a    *)
(* float64 is a pair [m, e] standing for m * 2^e.                          *)
Precision == 53

\* Round m * 2^e to a significand of Precision bits, ties to even.
RoundToPrecision(m, e) ==
    IF Len(m) <= Precision THEN [m |-> m, e |-> e]
    ELSE LET d == Len(m) - Precision
             q == SubSeq(m, d + 1, Len(m))
             rest == Trim(SubSeq(m, 1, d))
             half == ShiftLeft(<<1>>, d - 1)
             up == Less(half, rest) \/ (rest = half /\ q[1] = 1)
         IN  [m |-> IF up THEN Add(q, <<1>>) ELSE q, e |-> e + d]

\* float64(n) for an int n >= 0
Float64(n) == RoundToPrecision(n, 0)

\* The float64 nearest to 0.1: 0x1999999999999A * 2^-56.
Tenth ==
    [m |-> <<0, 1, 0, 1>>
           \o <<1, 0, 0, 1>> \o <<1, 0, 0, 1>> \o <<1, 0, 0, 1>>
           \o <<1, 0, 0, 1>> \o <<1, 0, 0, 1>> \o <<1, 0, 0, 1>>
           \o <<1, 0, 0, 1>> \o <<1, 0, 0, 1>> \o <<1, 0, 0, 1>>
           \o <<1, 0, 0, 1>> \o <<1, 0, 0, 1>> \o <<1, 0, 0, 1>>
           \o <<1>>,
     e |-> 0 - 56]

\* x * y in float64
FloatMul(x, y) == RoundToPrecision(Mul(x.m, y.m), x.e + y.e)

\* x <= y in float64
FloatLeq(x, y) ==
    LET lo == IF x.e < y.e THEN x.e ELSE y.e
    IN  Leq(ShiftLeft(x.m, x.e - lo), ShiftLeft(y.m, y.e - lo))

\* threshold := float64(r.Limit) * 0.1; float64(r.Remaining) <= threshold
IsNearLimit(info) ==
    LET threshold == FloatMul(Float64(info.limit), Tenth)
    IN  FloatLeq(Float64(info.remaining), threshold)

\* r.Remaining == 0
IsExceeded(info) == info.remaining = <<>>

\* Client.GetRateLimitInfo: nil or the snapshot.
GetRateLimitInfo == rateLimitInfo

\* Client.IsNearRateLimit: false without a snapshot.  (The header values
\* drawn are never negative.)
IsNearRateLimit ==
    IF ~rateLimitInfo.set THEN FALSE
    ELSE IsNearLimit([limit |-> Bits(rateLimitInfo.limit),
                      remaining |-> Bits(rateLimitInfo.remaining)])

(* ---------------- LimitSpec: querying a RateLimitInfo ------------------ *)
\* Quotients around which limits are drawn: 0, the 100 of "100 of 1000",
\* one a little below 2^53 / 10 and one near the top of the int range.
Quotients ==
    {<<>>,
     Bits(100),
     Add(Mul(Bits(71954942), Bits(10000000)), Bits(3298863)),
     [i \in 1..59 |-> 1]}

\* limit = 10 * q + d with q up to MaxProbe above a quotient, and remaining
\* 0, q or q + 1.
Probes ==
    UNION {
        LET q == Add(base, Bits(k))
            limit == Add(Mul(q, Bits(10)), Bits(d))
        IN  {[limit |-> limit, remaining |-> r] :
                r \in {<<>>, q, Add(q, <<1>>)}} :
        base \in Quotients, k \in 0..MaxProbe, d \in 0..9}

InitProbe ==
    /\ probe \in Probes
    /\ verdict = NoVerdict
    /\ InitClient /\ InitCalls /\ InitApi /\ InitRoute /\ InitWs

\* The application calls IsNearLimit and IsExceeded on the value.
AskLimits ==
    /\ ~verdict.asked
    /\ verdict' = [asked |-> TRUE,
                   near |-> IsNearLimit(probe),
                   exceeded |-> IsExceeded(probe)]
    /\ UNCHANGED <<cfgVars, tokVars, rlVars, callVars, auxVars, apiVars,
                   probe, routeVars, wsVars>>

LimitNext == AskLimits

LimitSpec == InitProbe /\ [][LimitNext]_vars

(* ------------ RateSpec: responses carrying rate-limit headers ---------- *)
FullA == [limit |-> <<"1", "0", "0">>, remaining |-> <<"5">>, reset |-> <<"9">>]
FullB == [limit |-> <<"5", "0">>, remaining |-> <<"7">>, reset |-> <<"8">>]
NoReset == [limit |-> <<"9", "9">>, remaining |-> <<"1">>, reset |-> <<>>]
NoLimit == [limit |-> <<>>, remaining |-> <<"1">>, reset |-> <<"3">>]
BadLimit == [limit |-> <<"x">>, remaining |-> <<"4">>, reset |-> <<"6">>]

WithRateLimit(r, h) == [r EXCEPT !.rl = h]

RateResponses ==
    {NoResponse}
    \cup {WithRateLimit(Resp(StatusOK, "plain"), h) :
            h \in {NoRateLimit, FullA, FullB, NoReset, NoLimit, BadLimit}}
    \cup {WithRateLimit(Resp(StatusOK, "unreadable"), FullB)}
    \cup {WithRateLimit(Resp(s, "plain"), FullB) :
            s \in {StatusUnauthorized, StatusNotFound, StatusTooManyRequests,
                   StatusServiceUnavailable}}

RateNext ==
    \/ \E p \in Callers : Alone(p) /\ calls < MaxCalls /\ BeginCall(p)
    \/ \E p \in Callers : Alone(p) /\ MarshalError(p)
    \/ \E p \in Callers : Alone(p) /\ LoadTokenPtr(p)
    \/ \E p \in Callers : Alone(p) /\ LoadTokenLen(p)
    \/ \E p \in Callers : Alone(p) /\ NetworkError(p)
    \/ \E p \in Callers, r \in RateResponses : Alone(p) /\ ReadBodyError(p, r)
    \/ \E p \in Callers, r \in RateResponses : Alone(p) /\ Success(p, r)
    \/ \E p \in Callers, r \in RateResponses : Alone(p) /\ RateLimited(p, r)
    \/ \E p \in Callers, r \in RateResponses : Alone(p) /\ Unauthorized(p, r)
    \/ \E p \in Callers, r \in RateResponses :
          Alone(p) /\ ServiceUnavailable(p, r)
    \/ \E p \in Callers, r \in RateResponses : Alone(p) /\ OtherError(p, r)
    \/ \E p \in Callers : Alone(p) /\ AuthPostOK(p)
    \/ \E p \in Callers, k \in RefreshFailures : Alone(p) /\ AuthPostFail(p, k)
    \/ \E p \in Callers : Alone(p) /\ StoreTokenPtr(p)
    \/ \E p \in Callers : Alone(p) /\ StoreTokenLen(p)
    \/ \E p \in Callers : Alone(p) /\ Finish(p)

RateSpec == Init /\ [][RateNext]_vars

(* ------ FrameSpec: construction, then calls with rate-limit headers ---- *)
FrameNext ==
    \/ \E u \in BaseURLs, k \in APIKeys, o \in FetchOutcomes : NewClient(u, k, o)
    \/ \E c \in Configs, o \in FetchOutcomes : NewClientWithConfig(c, o)
    \/ clientState = "ready" /\ RateNext

FrameSpec == InitNew /\ [][FrameNext]_vars

(* Calls of several goroutines in flight at once, answered with 2xx        *)
(* responses that carry different X-RateLimit-* headers.  The assignment   *)
(* c.rateLimitInfo = &RateLimitInfo{...} stores one pointer to a struct    *)
(* that no other goroutine has seen: the store is one step, and of two     *)
(* stores the later one stays.                                             *)
SnapshotResponses ==
    {WithRateLimit(Resp(StatusOK, "plain"), h) : h \in {FullA, FullB, NoReset}}

SnapshotNext ==
    \/ \E p \in Callers : calls < MaxCalls + 1 /\ BeginCall(p)
    \/ \E p \in Callers : LoadTokenPtr(p)
    \/ \E p \in Callers : LoadTokenLen(p)
    \/ \E p \in Callers, r \in SnapshotResponses : Success(p, r)
    \/ \E p \in Callers : Finish(p)

SnapshotSpec == Init /\ [][SnapshotNext]_vars

(* ------------------------- WebSocketClient.FindAll --------------------- *)
(* One WebSocketClient, used by one goroutine at a time, while other       *)
(* goroutines refresh the client's token.  ws.conn is "nil", "open" or,    *)
(* after Close, "closed": Close does not clear the field.  wsCall records  *)
(* the last call of WebSocket or FindAll: ws.conn as the call found it,    *)
(* what it did on the network, in order, and the error it returned; turn   *)
(* tells one call from the next.                                           *)
WsOutcomes == {"ok", "fail"}

\* How the exchange of a FindAll goes once it has a connection: WriteJSON
\* fails, ReadJSON fails, or a response is decoded that holds records, has
\* type "Error", no type or no payload.
WsExchanges ==
    {"send_fails", "read_fails", "records", "Error", "no_type", "no_payload"}

WsEvent(kind, w) == [kind |-> kind, token |-> w.token, conn |-> w.conn]

\* Mutant of connect: the dial authenticates with the client's token of the
\* moment.
connectWithClientToken(w, dial) ==
    [ws |-> IF dial = "ok" THEN [w EXCEPT !.conn = "open"] ELSE w,
     events |-> <<[kind |-> "dial", token |-> token, conn |-> w.conn]>>,
     err |-> IF dial = "ok" THEN "none" ELSE "ConnectError"]

\* connect(): dials with ws.token in the URL and in the Authorization
\* header, and sets ws.conn when the dial succeeds.
connect(w, dial) ==
    [ws |-> IF dial = "ok" THEN [w EXCEPT !.conn = "open"] ELSE w,
     events |-> <<WsEvent("dial", w)>>,
     err |-> IF dial = "ok" THEN "none" ELSE "ConnectError"]

\* Client.WebSocket: the token is copied from the client, then connect().
WebSocket(dial) ==
    /\ ~ws.exists
    /\ LET c == connect([exists |-> TRUE, token |-> token, conn |-> "nil"],
                        dial)
       IN  /\ ws' = IF c.err = "none" THEN c.ws ELSE NoWs
           /\ wsCall' = [op |-> "WebSocket", turn |-> 1 - wsCall.turn,
                         entry |-> "nil", events |-> c.events, err |-> c.err]
    /\ UNCHANGED <<cfgVars, tokVars, rlVars, callVars, auxVars, apiVars,
                   limVars, routeVars>>

\* What the response that ReadJSON decoded makes FindAll return.
WsResult(resp) ==
    CASE resp = "no_type" -> "FormatError"
      [] resp = "Error" -> "WebSocketError"
      [] resp = "no_payload" -> "PayloadError"
      [] OTHER -> "none"

\* FindAll, from the test of ws.conn to its return.  WriteJSON fails on a
\* connection that Close has closed.
FindAll(dial, exchange) ==
    /\ ws.exists
    /\ LET c == IF ws.conn = "nil" THEN connect(ws, dial)
                ELSE [ws |-> ws, events |-> <<>>, err |-> "none"]
           w == c.ws
           sent == exchange # "send_fails" /\ w.conn = "open"
           done(w2, ev, err) ==
               /\ ws' = w2
               /\ wsCall' = [op |-> "FindAll", turn |-> 1 - wsCall.turn,
                             entry |-> ws.conn, events |-> ev, err |-> err]
       IN  IF c.err # "none" THEN done(w, c.events, c.err)
           ELSE IF ~sent
           THEN done([w EXCEPT !.conn = "nil"],
                     c.events \o <<WsEvent("write", w)>>, "SendError")
           ELSE IF exchange = "read_fails"
           THEN done([w EXCEPT !.conn = "nil"],
                     c.events \o <<WsEvent("write", w), WsEvent("read", w)>>,
                     "ReadError")
           ELSE done(w,
                     c.events \o <<WsEvent("write", w), WsEvent("read", w)>>,
                     WsResult(exchange))
    /\ UNCHANGED <<cfgVars, tokVars, rlVars, callVars, auxVars, apiVars,
                   limVars, routeVars>>

\* Close(): the connection is closed and ws.conn keeps pointing to it.
Close ==
    /\ ws.exists
    /\ ws.conn = "open"
    /\ ws' = [ws EXCEPT !.conn = "closed"]
    /\ UNCHANGED wsCall
    /\ UNCHANGED <<cfgVars, tokVars, rlVars, callVars, auxVars, apiVars,
                   limVars, routeVars>>

WsNext ==
    \/ \E d \in WsOutcomes : WebSocket(d)
    \/ \E d \in WsOutcomes, x \in WsExchanges : FindAll(d, x)
    \/ Close
    \/ \E p \in Callers : calls < MaxCalls /\ BeginRefresh(p)
    \/ \E p \in Callers : AuthPostOK(p)
    \/ \E p \in Callers : StoreTokenPtr(p)
    \/ \E p \in Callers : StoreTokenLen(p)

WsSpec == Init /\ [][WsNext]_vars

(* ------- HerdSpec: callers running concurrently on one client ---------- *)
(* The server of the token-refresh tests: the token fetched at             *)
(* construction has gone stale, so a request carrying it (or a torn value) *)
(* is answered 401; a request carrying a complete token issued since is    *)
(* answered 200; every POST to /api/auth/token issues the next token.      *)
Accepts(t) == IsWhole(t) /\ t[1] >= 1
OK200 == Resp(StatusOK, "plain")
Stale401 == Resp(StatusUnauthorized, "invalid_token")

HerdNext ==
    \/ \E p \in Callers : BeginCall(p)
    \/ \E p \in Callers : BeginRefresh(p)
    \/ \E p \in Callers : LoadTokenPtr(p)
    \/ \E p \in Callers : LoadTokenLen(p)
    \/ \E p \in Callers : Accepts(reqTok[p]) /\ Success(p, OK200)
    \/ \E p \in Callers : ~Accepts(reqTok[p]) /\ Unauthorized(p, Stale401)
    \/ \E p \in Callers : AuthPostOK(p)
    \/ \E p \in Callers : StoreTokenPtr(p)
    \/ \E p \in Callers : StoreTokenLen(p)

HerdSpec == Init /\ [][HerdNext]_vars

(* -------------------- convenience methods: Exists, Upsert -------------- *)
(* FindByID, Update and Insert are makeRequest followed by unmarshal of    *)
(* the body; body "garbled" is one that unmarshal rejects.  A log entry    *)
(* records one of these requests: bodyId is the "id" field of the record   *)
(* in its body, err and status what the request method returned.           *)
RecordIds == {"absent", "other", "given"}

Requested(op, bodyId) ==
    [op |-> op, bodyId |-> bodyId, err |-> "pending", status |-> 0]

\* The error FindByID / Update / Insert returns once makeRequest has.
MethodErr(p) ==
    IF result[p] # "ok" THEN result[p]
    ELSE IF Last(hist[p]).body = "garbled" THEN "DecodeError" ELSE "nil"

\* The log with the outcome of the request just finished filled in.
Logged(p) ==
    [apiLog[p] EXCEPT ![Len(apiLog[p])] =
        [@ EXCEPT !.err = MethodErr(p), !.status = errStatus[p]]]

IsNotFound(p) ==
    MethodErr(p) = "HTTPError" /\ errStatus[p] = StatusNotFound

\* Exists: c.FindByID(collection, id)
Exists(p) ==
    /\ api[p] = "none"
    /\ StartRequest(p)
    /\ api' = [api EXCEPT ![p] = "Exists"]
    /\ apiLog' = [apiLog EXCEPT ![p] = <<Requested("FindByID", "none")>>]
    /\ UNCHANGED <<apiResult, stored, pageVars>>

\* Mutant of ExistsReturn: every HTTPError counts as "not found".
ExistsReturnAnyHTTPError(p) ==
    /\ api[p] = "Exists"
    /\ pc[p] = "done"
    /\ ~apiResult[p].returned
    /\ apiLog' = [apiLog EXCEPT ![p] = Logged(p)]
    /\ apiResult' = [apiResult EXCEPT ![p] =
          IF MethodErr(p) = "HTTPError"
          THEN [returned |-> TRUE, value |-> FALSE, err |-> "nil", status |-> 0]
          ELSE IF MethodErr(p) # "nil"
          THEN [returned |-> TRUE, value |-> FALSE, err |-> MethodErr(p),
                status |-> errStatus[p]]
          ELSE [returned |-> TRUE, value |-> TRUE, err |-> "nil", status |-> 0]]
    /\ UNCHANGED <<api, stored, pageVars>>
    /\ UNCHANGED <<cfgVars, tokVars, rlVars, callVars, auxVars, restVars>>

\* Exists, after FindByID has returned.
ExistsReturn(p) ==
    /\ api[p] = "Exists"
    /\ pc[p] = "done"
    /\ ~apiResult[p].returned
    /\ apiLog' = [apiLog EXCEPT ![p] = Logged(p)]
    /\ apiResult' = [apiResult EXCEPT ![p] =
          IF IsNotFound(p)
          THEN [returned |-> TRUE, value |-> FALSE, err |-> "nil", status |-> 0]
          ELSE IF MethodErr(p) # "nil"
          THEN [returned |-> TRUE, value |-> FALSE, err |-> MethodErr(p),
                status |-> errStatus[p]]
          ELSE [returned |-> TRUE, value |-> TRUE, err |-> "nil", status |-> 0]]
    /\ UNCHANGED <<api, stored, pageVars>>
    /\ UNCHANGED <<cfgVars, tokVars, rlVars, callVars, auxVars, restVars>>

\* Upsert: c.Update(collection, id, record, updateOpts) comes first; the
\* record (a non-nil map) is sent as the caller passed it.
Upsert(p, rid) ==
    /\ api[p] = "none"
    /\ StartRequest(p)
    /\ api' = [api EXCEPT ![p] = "Upsert"]
    /\ apiLog' = [apiLog EXCEPT ![p] = <<Requested("Update", rid)>>]
    /\ UNCHANGED <<apiResult, stored, pageVars>>

\* What starting a request straight after another one does to the call.
Restart(p) ==
    /\ calls' = calls + 1
    /\ pc' = [pc EXCEPT ![p] = "build"]
    /\ attempt' = [attempt EXCEPT ![p] = 0]
    /\ hist' = [hist EXCEPT ![p] = <<>>]
    /\ refreshLog' = [refreshLog EXCEPT ![p] = <<>>]
    /\ sentTok' = [sentTok EXCEPT ![p] = <<>>]
    /\ result' = [result EXCEPT ![p] = "none"]
    /\ errStatus' = [errStatus EXCEPT ![p] = 0]
    /\ sleeps' = [sleeps EXCEPT ![p] = <<>>]
    /\ errInfo' = [errInfo EXCEPT ![p] = NoErrInfo]
    /\ respBody' = [respBody EXCEPT ![p] = "nil"]
    /\ start' = [start EXCEPT ![p] = [token |-> token, rl |-> rateLimitInfo]]
    /\ UNCHANGED <<role, reqTok, newTok>>

\* Mutant of UpsertInsert: the insert follows any HTTPError of the update.
UpsertInsertAnyHTTPError(p) ==
    /\ api[p] = "Upsert"
    /\ pc[p] = "done"
    /\ Len(apiLog[p]) = 1
    /\ MethodErr(p) = "HTTPError"
    /\ Restart(p)
    /\ apiLog' = [apiLog EXCEPT ![p] =
                     Append(Logged(p), Requested("Insert", "given"))]
    /\ UNCHANGED <<api, apiResult, stored, pageVars>>
    /\ UNCHANGED <<cfgVars, tokVars, rlVars, restVars>>

\* Upsert, the update having returned a 404 HTTPError: record["id"] = id,
\* then c.Insert(collection, record, insertOpts).
UpsertInsert(p) ==
    /\ api[p] = "Upsert"
    /\ pc[p] = "done"
    /\ Len(apiLog[p]) = 1
    /\ IsNotFound(p)
    /\ Restart(p)
    /\ apiLog' = [apiLog EXCEPT ![p] =
                     Append(Logged(p), Requested("Insert", "given"))]
    /\ UNCHANGED <<api, apiResult, stored, pageVars>>
    /\ UNCHANGED <<cfgVars, tokVars, rlVars, restVars>>

\* Upsert returns what the update returned, unless that was a 404, or what
\* the insert returned.
UpsertReturn(p) ==
    /\ api[p] = "Upsert"
    /\ pc[p] = "done"
    /\ ~apiResult[p].returned
    /\ Len(apiLog[p]) = 2 \/ ~IsNotFound(p)
    /\ apiLog' = [apiLog EXCEPT ![p] = Logged(p)]
    /\ apiResult' = [apiResult EXCEPT ![p] =
          [returned |-> TRUE, value |-> MethodErr(p) = "nil",
           err |-> MethodErr(p), status |-> errStatus[p]]]
    /\ UNCHANGED <<api, stored, pageVars>>
    /\ UNCHANGED <<cfgVars, tokVars, rlVars, callVars, auxVars, restVars>>

\* The application takes what the method returned.
ApiFinish(p) ==
    /\ apiResult[p].returned
    /\ EndRequest(p)
    /\ api' = [api EXCEPT ![p] = "none"]
    /\ apiLog' = [apiLog EXCEPT ![p] = <<>>]
    /\ apiResult' = [apiResult EXCEPT ![p] = NoApiResult]
    /\ pageArgs' = [pageArgs EXCEPT ![p] = NoPageArgs]
    /\ query' = [query EXCEPT ![p] = NoQuery]
    /\ UNCHANGED stored

(* ------- ApiSpec: convenience methods called one after another --------- *)
ApiResponses ==
    {NoResponse}
    \cup {Resp(s, "plain") : s \in {StatusOK, StatusUnauthorized,
                                     StatusNotFound, StatusTooManyRequests,
                                     StatusInternalServerError}}
    \cup {Resp(StatusOK, "garbled")}

ApiNext ==
    \/ \E p \in Callers : Alone(p) /\ calls < MaxCalls /\ Exists(p)
    \/ \E p \in Callers, rid \in RecordIds :
          Alone(p) /\ calls < MaxCalls /\ Upsert(p, rid)
    \/ \E p \in Callers : Alone(p) /\ MarshalError(p)
    \/ \E p \in Callers : Alone(p) /\ LoadTokenPtr(p)
    \/ \E p \in Callers : Alone(p) /\ LoadTokenLen(p)
    \/ \E p \in Callers : Alone(p) /\ NetworkError(p)
    \/ \E p \in Callers, r \in ApiResponses : Alone(p) /\ Success(p, r)
    \/ \E p \in Callers, r \in ApiResponses : Alone(p) /\ RateLimited(p, r)
    \/ \E p \in Callers, r \in ApiResponses : Alone(p) /\ Unauthorized(p, r)
    \/ \E p \in Callers, r \in ApiResponses : Alone(p) /\ OtherError(p, r)
    \/ \E p \in Callers : Alone(p) /\ AuthPostOK(p)
    \/ \E p \in Callers, k \in RefreshFailures : Alone(p) /\ AuthPostFail(p, k)
    \/ \E p \in Callers : Alone(p) /\ StoreTokenPtr(p)
    \/ \E p \in Callers : Alone(p) /\ StoreTokenLen(p)
    \/ \E p \in Callers : Alone(p) /\ ExistsReturn(p)
    \/ \E p \in Callers : Alone(p) /\ UpsertInsert(p)
    \/ \E p \in Callers : Alone(p) /\ UpsertReturn(p)
    \/ \E p \in Callers : Alone(p) /\ ApiFinish(p)

ApiSpec == Init /\ [][ApiNext]_vars

(* ------- UpsertSpec: callers upserting one id concurrently ------------- *)
(* The server holds `stored` records under the id: an update of an id it   *)
(* does not hold is answered 404, any other update and every insert 200.   *)
NotFound404 == Resp(StatusNotFound, "plain")

CurrentOp(p) == Last(apiLog[p]).op

UpsertNext ==
    \/ \E p \in Callers, rid \in RecordIds : Upsert(p, rid)
    \/ \E p \in Callers : LoadTokenPtr(p)
    \/ \E p \in Callers : LoadTokenLen(p)
    \/ \E p \in Callers :
          /\ pc[p] = "send" /\ CurrentOp(p) = "Update" /\ stored > 0
          /\ Success(p, OK200)
    \/ \E p \in Callers :
          /\ pc[p] = "send" /\ CurrentOp(p) = "Update" /\ stored = 0
          /\ OtherError(p, NotFound404)
    \/ \E p \in Callers :
          /\ pc[p] = "send" /\ CurrentOp(p) = "Insert"
          /\ Handle2xx(p, OK200)
          /\ stored' = stored + 1
          /\ UNCHANGED <<api, apiLog, apiResult, pageVars>>
    \/ \E p \in Callers : UpsertInsert(p)
    \/ \E p \in Callers : UpsertReturn(p)

UpsertSpec == Init /\ [][UpsertNext]_vars

(* ------------------------------- Paginate ------------------------------ *)
(* page and pageSize are Go ints; the offset is their product in the       *)
(* width of an int.                                                        *)
\* n < 1
LessThanOne(n) == n.neg \/ n.mag = <<>>

\* a - 1 on the digits of a >= 1
RECURSIVE Pred(_)
Pred(a) ==
    IF a[1] = 1 THEN Trim(<<0>> \o Tail(a)) ELSE <<1>> \o Pred(Tail(a))

\* offset := (page - 1) * pageSize, for page >= 1
PageOffset(page, pageSize) == MulInt(GoInt(FALSE, Pred(page.mag)), pageSize)

\* NewQueryBuilder().Limit(pageSize).Skip(offset).Build(): both keys are
\* present, with the values given.
BuildQuery(limit, skip) == [built |-> TRUE, limit |-> limit, skip |-> skip]

\* Paginate: the two checks, then c.Find(collection, query), whose first
\* step is makeRequest.
Paginate(p, page, pageSize) ==
    /\ api[p] = "none"
    /\ pc[p] = "idle"
    /\ api' = [api EXCEPT ![p] = "Paginate"]
    /\ pageArgs' = [pageArgs EXCEPT ![p] =
                       [called |-> TRUE, page |-> page, pageSize |-> pageSize]]
    /\ IF LessThanOne(page) \/ LessThanOne(pageSize)
       THEN /\ apiResult' = [apiResult EXCEPT ![p] =
                   [returned |-> TRUE, value |-> FALSE,
                    err |-> IF LessThanOne(page) THEN "PageError"
                            ELSE "PageSizeError",
                    status |-> 0]]
            /\ UNCHANGED <<apiLog, query, stored>>
            /\ UNCHANGED <<cfgVars, tokVars, rlVars, callVars, auxVars,
                           restVars>>
       ELSE /\ StartRequest(p)
            /\ apiLog' = [apiLog EXCEPT ![p] = <<Requested("Find", "none")>>]
            /\ query' = [query EXCEPT ![p] =
                            BuildQuery(pageSize, PageOffset(page, pageSize))]
            /\ UNCHANGED <<apiResult, stored>>

\* Paginate returns what Find returned.
PaginateReturn(p) ==
    /\ api[p] = "Paginate"
    /\ pc[p] = "done"
    /\ ~apiResult[p].returned
    /\ apiLog' = [apiLog EXCEPT ![p] = Logged(p)]
    /\ apiResult' = [apiResult EXCEPT ![p] =
          [returned |-> TRUE, value |-> MethodErr(p) = "nil",
           err |-> MethodErr(p), status |-> errStatus[p]]]
    /\ UNCHANGED <<api, stored, pageVars>>
    /\ UNCHANGED <<cfgVars, tokVars, rlVars, callVars, auxVars, restVars>>

\* The application takes the error of a call that made no request.
TakeRejection(p) ==
    /\ api[p] = "Paginate"
    /\ pc[p] = "idle"
    /\ apiResult[p].returned
    /\ api' = [api EXCEPT ![p] = "none"]
    /\ apiResult' = [apiResult EXCEPT ![p] = NoApiResult]
    /\ pageArgs' = [pageArgs EXCEPT ![p] = NoPageArgs]
    /\ UNCHANGED <<apiLog, query, stored>>
    /\ UNCHANGED <<cfgVars, tokVars, rlVars, callVars, auxVars, restVars>>

(* --------------- PageSpec: Paginate called one after another ----------- *)
MaxPage == 3

\* 2^61 + 1 and 2^62 + 1
BigPages ==
    {[i \in 1..62 |-> IF i \in {1, 62} THEN 1 ELSE 0],
     [i \in 1..63 |-> IF i \in {1, 63} THEN 1 ELSE 0]}

Pages ==
    {GoInt(TRUE, <<1>>)}
    \cup {GoInt(FALSE, Bits(k)) : k \in 0..MaxPage}
    \cup {GoInt(FALSE, b) : b \in BigPages}

PageSizes ==
    {GoInt(TRUE, <<1>>)} \cup {GoInt(FALSE, Bits(k)) : k \in {0, 1, 4}}

PageResponses ==
    {NoResponse, Resp(StatusOK, "plain"), Resp(StatusOK, "garbled")}

PageNext ==
    \/ \E p \in Callers, page \in Pages, pageSize \in PageSizes :
          Alone(p) /\ calls < MaxCalls /\ Paginate(p, page, pageSize)
    \/ \E p \in Callers : Alone(p) /\ LoadTokenPtr(p)
    \/ \E p \in Callers : Alone(p) /\ LoadTokenLen(p)
    \/ \E p \in Callers : Alone(p) /\ NetworkError(p)
    \/ \E p \in Callers, r \in PageResponses : Alone(p) /\ Success(p, r)
    \/ \E p \in Callers : Alone(p) /\ PaginateReturn(p)
    \/ \E p \in Callers : Alone(p) /\ ApiFinish(p)
    \/ \E p \in Callers : TakeRejection(p)

PageSpec == Init /\ [][PageNext]_vars

(* --------------------- RouteSpec: wire-format routing ------------------ *)
(* A path is the sequence of its "/" separators and segments, so that      *)
(* path[:len(prefix)] == prefix is a comparison of leading sub-sequences.  *)
SegNames == {"api", "insert", "find", "batch", "batch_insert", "kv", "users"}
Collections == {"users", "orders"}
Ids == {"id1"}

RECURSIVE PathOf(_)
PathOf(segs) ==
    IF segs = <<>> THEN <<>> ELSE <<"/", Head(segs)>> \o PathOf(Tail(segs))

\* Arbitrary request paths: up to MaxSegs segments, with or without a
\* trailing separator.
Paths ==
    LET segs == UNION {[1..n -> SegNames] : n \in 1..MaxSegs}
    IN  {PathOf(s) : s \in segs} \cup {PathOf(s) \o <<"/">> : s \in segs}

msgpackPaths == <<
    <<"/", "api", "/", "insert", "/">>,
    <<"/", "api", "/", "batch_insert", "/">>,
    <<"/", "api", "/", "update", "/">>,
    <<"/", "api", "/", "batch_update", "/">>,
    <<"/", "api", "/", "delete", "/">>,
    <<"/", "api", "/", "batch_delete", "/">>,
    <<"/", "api", "/", "find", "/">> >>

\* len(path) >= len(prefix) && path[:len(prefix)] == prefix
HasPrefix(pth, prefix) ==
    Len(pth) >= Len(prefix) /\ SubSeq(pth, 1, Len(prefix)) = prefix

\* Mutant of shouldUseJSON: only the find prefix is on the list.
shouldUseJSONFindOnly(pth) == ~HasPrefix(pth, msgpackPaths[7])
shouldUseJSON(pth) ==
    ~\E i \in 1..Len(msgpackPaths) : HasPrefix(pth, msgpackPaths[i])

\* makeRequestWithRetry: contentType, and the marshaller of a non-nil body.
ContentTypeFor(fmt, pth) ==
    IF ~shouldUseJSON(pth) /\ fmt = MessagePack
    THEN "application/msgpack"
    ELSE "application/json"

MarshalFor(fmt, pth) ==
    IF ~shouldUseJSON(pth) /\ fmt = MessagePack THEN "msgpack" ELSE "json"

\* Mutant of unmarshal: the path is not consulted.
unmarshalByFormatOnly(fmt, pth) == IF fmt = JSON THEN "json" ELSE "msgpack"
\* unmarshal: JSON if the path requires it or the client is set to JSON.
unmarshal(fmt, pth) ==
    IF shouldUseJSON(pth) \/ fmt = JSON THEN "json" ELSE "msgpack"

\* The head of makeRequestWithRetry for a request to pth built by method op.
BuildRequest(op, pth, hasBody) ==
    /\ path = <<>>
    /\ path' = pth
    /\ lastOp' = op
    /\ contentType' = ContentTypeFor(format, pth)
    /\ encoding' = IF hasBody THEN MarshalFor(format, pth) ELSE "none"
    /\ decoding' = "none"
    /\ UNCHANGED <<cfgVars, tokVars, rlVars, callVars, auxVars, apiVars, limVars,
                   wsVars>>

\* The query string Insert, Update and Delete append when options are set.
WithParams(pth, opts) == IF opts THEN pth \o <<"?", "params">> ELSE pth

Insert(c, opts) ==
    BuildRequest("Insert", WithParams(<<"/", "api", "/", "insert", "/", c>>, opts), TRUE)
Find(c) ==
    BuildRequest("Find", <<"/", "api", "/", "find", "/", c>>, TRUE)
FindByID(c, id) ==
    BuildRequest("FindByID", <<"/", "api", "/", "find", "/", c, "/", id>>, FALSE)
Update(c, id, opts) ==
    BuildRequest("Update",
                 WithParams(<<"/", "api", "/", "update", "/", c, "/", id>>, opts), TRUE)
Delete(c, id, opts) ==
    BuildRequest("Delete",
                 WithParams(<<"/", "api", "/", "delete", "/", c, "/", id>>, opts), FALSE)
BatchInsert(c) ==
    BuildRequest("BatchInsert", <<"/", "api", "/", "batch", "/", "insert", "/", c>>, TRUE)
BatchUpdate(c) ==
    BuildRequest("BatchUpdate", <<"/", "api", "/", "batch", "/", "update", "/", c>>, TRUE)
BatchDelete(c) ==
    BuildRequest("BatchDelete", <<"/", "api", "/", "batch", "/", "delete", "/", c>>, TRUE)
KVBatchGet ==
    BuildRequest("KVBatchGet", <<"/", "api", "/", "kv", "/", "batch", "/", "get">>, TRUE)
\* Any other caller of makeRequest.
RawRequest(pth, hasBody) == BuildRequest("makeRequest", pth, hasBody)

\* c.unmarshal(path, respBody, &result) on the response of the last request.
Unmarshal ==
    /\ path # <<>>
    /\ decoding = "none"
    /\ decoding' = unmarshal(format, path)
    /\ UNCHANGED <<path, lastOp, contentType, encoding>>
    /\ UNCHANGED <<cfgVars, tokVars, rlVars, callVars, auxVars, apiVars, limVars,
                   wsVars>>

\* The method returns; the next request is routed from scratch.
NextRequest ==
    /\ decoding # "none"
    /\ path' = <<>>
    /\ lastOp' = "none"
    /\ contentType' = "none"
    /\ encoding' = "none"
    /\ decoding' = "none"
    /\ UNCHANGED <<cfgVars, tokVars, rlVars, callVars, auxVars, apiVars, limVars,
                   wsVars>>

RouteNext ==
    \/ \E c \in Collections, o \in BOOLEAN : Insert(c, o)
    \/ \E c \in Collections : Find(c)
    \/ \E c \in Collections, id \in Ids : FindByID(c, id)
    \/ \E c \in Collections, id \in Ids, o \in BOOLEAN : Update(c, id, o)
    \/ \E c \in Collections, id \in Ids, o \in BOOLEAN : Delete(c, id, o)
    \/ \E c \in Collections : BatchInsert(c)
    \/ \E c \in Collections : BatchUpdate(c)
    \/ \E c \in Collections : BatchDelete(c)
    \/ KVBatchGet
    \/ path = <<>> /\ \E pth \in Paths, b \in BOOLEAN : RawRequest(pth, b)
    \/ Unmarshal
    \/ NextRequest

RouteSpec == Init /\ [][RouteNext]_vars

(* ================================ claims =============================== *)
AllDone == \A p \in Callers : pc[p] = "done"

\* C1 (HerdSpec): when every caller has run the client's refresh path on the
\* same stale token and all have returned, exactly one POST to
\* /api/auth/token was made and the client holds the newly issued token.
C1_SingleFlightRefresh ==
    (AllDone /\ \A p \in Callers : role[p] = "refresh")
        => authPosts = 1 /\ token = Whole(1)

\* C2 (HerdSpec): when every caller's request went out with the stale token
\* and was answered 401, every call succeeds on replay and exactly one
\* refresh reached the server in total.
C2_HerdOneRefresh ==
    (AllDone /\ \A p \in Callers :
                    role[p] = "request" /\ sentTok[p][1] = Whole(0))
        => (\A p \in Callers : result[p] = "ok") /\ authPosts = 1

\* The case of C3: 401 on the first attempt, 2xx on the replay.
C3_Case(p) ==
    /\ pc[p] = "done"
    /\ role[p] = "request"
    /\ Len(hist[p]) = 2
    /\ hist[p][1].status = StatusUnauthorized
    /\ IsSuccess(hist[p][2])
    /\ hist[p][2].body # "unreadable"

\* C3 (Spec): a call answered 401 and then 2xx returns success, invoked the
\* refresh exactly once, replayed with the token that refresh was issued,
\* and leaves that token, the last one the server issued, in the client.
C3_RefreshThenSuccess ==
    \A p \in Callers :
        C3_Case(p) =>
            /\ result[p] = "ok"
            /\ refreshLog[p] = <<0>>
            /\ newTok[p] = authPosts
            /\ sentTok[p][2] = Whole(newTok[p])
            /\ token = Whole(newTok[p])

C3_Witness == \E p \in Callers : C3_Case(p) /\ authPosts = 2

\* C4 (HerdSpec): every value read from c.token for an Authorization header
\* is a complete token the client has held: the initial one or one issued.
C4_ReadsAreWhole ==
    \A p \in Callers :
        pc[p] = "send" => IsWhole(reqTok[p]) /\ reqTok[p][1] \in 0..authPosts

\* The case of C5: the call is over and every attempt met status k
\* (0 for a transport error).
C5_Case(p, k) ==
    /\ shouldRetry
    /\ pc[p] = "done"
    /\ role[p] = "request"
    /\ hist[p] # <<>>
    /\ \A i \in 1..Len(hist[p]) :
          hist[p][i].status = k /\ hist[p][i].body # "unreadable"

\* C5 as stated (Spec): with retries enabled, a call failing every time with
\* the same retryable outcome is sent maxRetries + 1 times and returns the
\* terminal error of that kind.
C5_RetryBounded ==
    \A p \in Callers :
        /\ C5_Case(p, 0) =>
              /\ Len(sentTok[p]) = maxRetries + 1
              /\ result[p] = "TransportError"
        /\ C5_Case(p, StatusTooManyRequests) =>
              /\ Len(sentTok[p]) = maxRetries + 1
              /\ result[p] = "RateLimitError"
        /\ C5_Case(p, StatusServiceUnavailable) =>
              /\ Len(sentTok[p]) = maxRetries + 1
              /\ result[p] = "HTTPError"
              /\ errStatus[p] = StatusServiceUnavailable

\* Requests a call failing every time is sent: with a negative maxRetries
\* no attempt number is below it, and the call ends on its first attempt.
C5_Sends == IF maxRetries < 0 THEN 1 ELSE maxRetries + 1

\* C5 amended (Spec): with ShouldRetry set, a call failing every time with
\* the same retryable outcome is sent maxRetries + 1 times when maxRetries
\* is not negative, and once when it is negative; it returns the terminal
\* error of that kind.
C5_RetryBoundedFromZero ==
    \A p \in Callers :
        /\ C5_Case(p, 0) =>
              /\ Len(sentTok[p]) = C5_Sends
              /\ result[p] = "TransportError"
        /\ C5_Case(p, StatusTooManyRequests) =>
              /\ Len(sentTok[p]) = C5_Sends
              /\ result[p] = "RateLimitError"
        /\ C5_Case(p, StatusServiceUnavailable) =>
              /\ Len(sentTok[p]) = C5_Sends
              /\ result[p] = "HTTPError"
              /\ errStatus[p] = StatusServiceUnavailable

C5_Witness ==
    \E p \in Callers :
        /\ C5_Case(p, StatusTooManyRequests)
        /\ maxRetries = DefaultMaxRetries
        /\ Len(sentTok[p]) = DefaultMaxRetries + 1

\* C6 (Spec): a call invokes the refresh at most once, and only on attempt 0
\* for an authentication failure; an authentication failure on a later
\* attempt is the last response of the call, which ends with the
\* "authentication failed after token refresh" error.
C6_RefreshOnlyOnFirstAttempt ==
    \A p \in Callers :
        role[p] = "request" =>
            /\ Len(refreshLog[p]) <= 1
            /\ \A i \in 1..Len(refreshLog[p]) :
                   /\ refreshLog[p][i] = 0
                   /\ hist[p] # <<>>
                   /\ IsAuthFailure(hist[p][1])
            /\ \A i \in 2..Len(hist[p]) :
                   IsAuthFailure(hist[p][i]) =>
                       /\ i = Len(hist[p])
                       /\ Len(sentTok[p]) = i
                       /\ pc[p] = "done"
                       /\ result[p] = "AuthFailedAfterRefresh"

C6_Witness ==
    \E p \in Callers :
        /\ pc[p] = "done"
        /\ result[p] = "AuthFailedAfterRefresh"
        /\ refreshLog[p] = <<0>>
        /\ Len(hist[p]) = 3
        /\ IsAuthFailure(hist[p][3])

\* C7 (Spec): a call that ends with the terminal authentication-failure
\* error has refreshed the token exactly once and sent a replay after it.
C7_AuthErrorFollowsRefresh ==
    \A p \in Callers :
        (pc[p] = "done" /\ result[p] = "AuthFailedAfterRefresh")
            => Len(refreshLog[p]) = 1 /\ IsAuthFailure(hist[p][1])

\* The allow-list as the claims state it: /api/<op>/... for a CRUD op.
OnAllowList(pth) ==
    /\ Len(pth) >= 5
    /\ pth[1] = "/" /\ pth[2] = "api" /\ pth[3] = "/" /\ pth[5] = "/"
    /\ pth[4] \in {"insert", "batch_insert", "update", "batch_update",
                   "delete", "batch_delete", "find"}

Binary(kind) == kind \in {"application/msgpack", "msgpack"}

C9_BatchIsBinary ==
    (lastOp \in {"BatchInsert", "BatchUpdate", "BatchDelete"}
        /\ format = MessagePack)
        => Binary(contentType) /\ Binary(encoding)

\* C10 (RouteSpec): the format of the request's Content-Type/Accept and of
\* its body is the format unmarshal decodes the response with.
C10_EncodeDecodeSymmetric ==
    decoding # "none" =>
        /\ Binary(contentType) <=> Binary(decoding)
        /\ encoding # "none" => encoding = decoding

C10_Witness ==
    /\ decoding = "json"
    /\ format = MessagePack
    /\ encoding = "json"
    /\ path = <<"/", "api", "/", "batch_insert">>

(* ------------------------- claims C11 .. C20 --------------------------- *)

\* What C11 expects for each Retry-After value the server may send.
C11_Large == GoInt(FALSE, Add(Mul(Bits(922337203), Bits(10)), Bits(7)))
C11_Expected(h) ==
    CASE h = <<>> -> IntOf(60)
      [] h = <<"2">> -> IntOf(2)
      [] h = <<"1", "x">> -> IntOf(60)
      [] h = <<"-", "1">> -> GoInt(TRUE, <<1>>)
      [] OTHER -> C11_Large

\* The case of C11: the last response was a 429 whose body was read.
C11_Case(p) ==
    /\ role[p] = "request"
    /\ hist[p] # <<>>
    /\ Last(hist[p]).status = StatusTooManyRequests
    /\ Last(hist[p]).body # "unreadable"

\* C11 (Spec): after a 429 the retry-after value is the Retry-After header
\* as an integer, or 60 when the header is absent or not an integer.  The
\* call either retries, which it does only with retries enabled and
\* attempts left, or returns a RateLimitError whose RetryAfterSecs is that
\* value and whose Message is the response body.
C11_RateLimitError ==
    \A p \in Callers :
        C11_Case(p) =>
            LET r == Last(hist[p])
            IN  IF pc[p] = "done"
                THEN /\ ~(shouldRetry /\ attempt[p] < maxRetries)
                     /\ result[p] = "RateLimitError"
                     /\ errInfo[p].retryAfter = C11_Expected(r.retryAfter)
                     /\ errInfo[p].message = r.body
                ELSE /\ shouldRetry /\ attempt[p] - 1 < maxRetries
                     /\ sleeps[p] # <<>>

C11_Witness ==
    \E p \in Callers :
        /\ C11_Case(p)
        /\ pc[p] = "done"
        /\ Len(hist[p]) = 2
        /\ hist[p][1].retryAfter = <<"1", "x">>
        /\ sleeps[p] = <<DurationOf[IntOf(DefaultRetryAfter)]>>
        /\ errInfo[p] = [retryAfter |-> IntOf(2), message |-> "slow down"]

\* The responses C12 is about.
C12_Other(r) ==
    /\ r.status # 0
    /\ r.body # "unreadable"
    /\ ~(r.status \in 200..299)
    /\ r.status \notin {429, 401, 503}
    /\ ~(r.status = 500 /\ r.body = "invalid_token")

\* C12 (Spec): a response that is neither 2xx, 429, 401, 503 nor a 500 with
\* "Invalid token" is the last one its call receives, on whatever attempt
\* it arrives: the call has returned an HTTPError with that status and that
\* body, and the response was followed by no retry, sleep or refresh.
C12_OtherIsTerminal ==
    \A p \in Callers : \A i \in 1..Len(hist[p]) :
        C12_Other(hist[p][i]) =>
            /\ i = Len(hist[p])
            /\ pc[p] = "done"
            /\ result[p] = "HTTPError"
            /\ errStatus[p] = hist[p][i].status
            /\ errInfo[p].message = hist[p][i].body
            /\ attempt[p] = i - 1
            /\ Len(sleeps[p]) <= i - 1
            /\ \A j \in 1..Len(refreshLog[p]) : refreshLog[p][j] < i - 1

C12_Witness ==
    \E p \in Callers :
        /\ Len(hist[p]) = 3
        /\ C12_Other(hist[p][3])
        /\ hist[p][3].status = StatusInternalServerError
        /\ sleeps[p] = <<DurationOf[IntOf(NetworkRetryDelay)],
                         DurationOf[IntOf(ServiceUnavailableDelay)]>>
        /\ result[p] = "HTTPError"

\* The case of C19: the caller's refreshToken returned an error.
C19_Case(p) == pc[p] = "done" /\ result[p] = "RefreshFailed"

\* C19 (Spec): when a refresh fails, for any of the four reasons, the client
\* holds the token it held when the call began and the call has returned
\* the refresh error; a request that triggered the refresh sent exactly one
\* request and no replay.  A caller that reaches the token endpoint can
\* always be issued a token, whatever failed before.
C19_FailedRefreshKeepsToken ==
    \A p \in Callers :
        /\ C19_Case(p) =>
              /\ token = start[p].token
              /\ errInfo[p].message \in RefreshFailures
              /\ role[p] = "request" =>
                    /\ Len(sentTok[p]) = 1
                    /\ Len(hist[p]) = 1
                    /\ attempt[p] = 0
        /\ pc[p] = "refresh" => ENABLED AuthPostOK(p)

\* A refresh failed (one POST more than tokens issued) and a later refresh
\* on the same client succeeded and replaced the token.
C19_Witness ==
    \E p \in Callers :
        /\ pc[p] = "done"
        /\ result[p] = "ok"
        /\ refreshLog[p] = <<0>>
        /\ authPosts = 2
        /\ start[p].token = Whole(0)
        /\ token = Whole(2)

\* C20 (ConstructSpec): when the constructor's token fetch fails, for any of
\* the reasons refreshToken can fail, no client is returned, so nothing is
\* ever called on one; a client that was returned had a successful fetch
\* and, until a later refresh is issued, holds the token of that fetch.
C20_ConstructorNeedsToken ==
    /\ initFetch \in RefreshFailures =>
          /\ clientState = "failed"
          /\ calls = 0
          /\ \A p \in Callers : pc[p] = "idle"
    /\ clientState = "ready" =>
          /\ initFetch = "ok"
          /\ authPosts = 0 => token = Whole(0)

C20_Witness ==
    /\ clientState = "failed"
    /\ initFetch = "no_token"
    /\ token = NoToken
    /\ maxRetries = DefaultMaxRetries

\* C18 (LimitSpec): for every limit and remaining drawn, IsNearLimit
\* answers true iff 10 * remaining <= limit, and IsExceeded answers true
\* iff remaining is 0.
C18_NearIffTenTimes ==
    verdict.asked =>
        /\ verdict.near <=> Leq(Mul(probe.remaining, Bits(10)), probe.limit)
        /\ verdict.exceeded <=> (probe.remaining = <<>>)

\* The snapshot C16 expects from each complete set of headers drawn; a
\* value that is not a number reads as 0.
C16_Snapshot(h) ==
    CASE h = FullA ->
           [set |-> TRUE, limit |-> 100, remaining |-> 5, reset |-> 9]
      [] h = FullB ->
           [set |-> TRUE, limit |-> 50, remaining |-> 7, reset |-> 8]
      [] h = BadLimit ->
           [set |-> TRUE, limit |-> 0, remaining |-> 4, reset |-> 6]

\* C16 as stated (RateSpec): the snapshot is unset, and IsNearRateLimit
\* false, until a 2xx response has carried all three headers; from then on
\* it holds the values of the most recent 2xx response that carried them.
C16_LatestFull2xx ==
    IF last2xxFull = NoRateLimit
    THEN ~GetRateLimitInfo.set /\ ~IsNearRateLimit
    ELSE GetRateLimitInfo = C16_Snapshot(last2xxFull)

\* C16 amended (RateSpec): the same, over the 2xx responses whose body the
\* client could read.
C16_LatestFullRead2xx ==
    IF lastReadFull = NoRateLimit
    THEN ~GetRateLimitInfo.set /\ ~IsNearRateLimit
    ELSE GetRateLimitInfo = C16_Snapshot(lastReadFull)

\* A snapshot taken from one call is kept by a later 2xx that lacks a header.
C16_Witness ==
    \E p \in Callers :
        /\ pc[p] = "done"
        /\ result[p] = "ok"
        /\ Last(hist[p]).rl = NoReset
        /\ start[p].rl = C16_Snapshot(FullA)
        /\ rateLimitInfo = C16_Snapshot(FullA)

\* C17 (RateSpec): from the moment a call begins, the snapshot stays what
\* it was at that moment through transport errors, non-2xx responses and
\* the token refresh; it can differ only once the call has returned
\* success.  A call that returned an error left it as it found it.
C17_WrittenOnlyOn2xx ==
    \A p \in Callers :
        (pc[p] # "idle" /\ ~(pc[p] = "done" /\ result[p] = "ok"))
            => rateLimitInfo = start[p].rl

\* An error response with complete headers arrives after a refresh and
\* leaves the earlier snapshot in place.
C17_Witness ==
    \E p \in Callers :
        /\ pc[p] = "done"
        /\ result[p] = "HTTPError"
        /\ refreshLog[p] = <<0>>
        /\ Last(hist[p]).rl = FullB
        /\ rateLimitInfo = C16_Snapshot(FullA)

\* The case of C13: Exists has returned.
C13_Case(p) == api[p] = "Exists" /\ apiResult[p].returned

\* C13 (ApiSpec): Exists makes one FindByID request.  It returns (false,
\* nil) exactly when FindByID returned an HTTPError of status 404, (true,
\* nil) when FindByID returned no error, and in every other case false
\* with the very error, status code included, that FindByID returned.
C13_ExistsMapsNotFound ==
    \A p \in Callers :
        C13_Case(p) =>
            LET f == apiLog[p][1]
                notFound == result[p] = "HTTPError" /\ errStatus[p] = 404
                out == apiResult[p]
            IN  /\ Len(apiLog[p]) = 1
                /\ f.op = "FindByID"
                /\ (~out.value /\ out.err = "nil") <=> notFound
                /\ f.err = "nil" => (out.value /\ out.err = "nil")
                /\ (f.err # "nil" /\ ~notFound) =>
                      /\ ~out.value
                      /\ out.err = f.err
                      /\ out.err = "HTTPError" <=> result[p] = "HTTPError"
                      /\ out.status = errStatus[p]

\* A 404 on a retried attempt gives (false, nil).
C13_Witness ==
    \E p \in Callers :
        /\ C13_Case(p)
        /\ Len(hist[p]) = 2
        /\ Last(hist[p]).status = StatusNotFound
        /\ apiResult[p] = [returned |-> TRUE, value |-> FALSE, err |-> "nil",
                           status |-> 0]

\* C14 (ApiSpec): the first request of an Upsert is the update; a second
\* request is made iff the update returned an HTTPError of status 404, and
\* it is an insert of the record with its id set to the given id.  After a
\* successful update, or any other update error, Upsert returns what the
\* update returned and no insert was sent.
C14_UpdateThenInsertOn404 ==
    \A p \in Callers :
        api[p] = "Upsert" =>
            LET log == apiLog[p]
                first == log[1]
                notFound == first.err = "HTTPError" /\ first.status = 404
                out == apiResult[p]
            IN  /\ first.op = "Update"
                /\ Len(log) <= 2
                /\ Len(log) = 2 =>
                      /\ notFound
                      /\ log[2].op = "Insert"
                      /\ log[2].bodyId = "given"
                /\ out.returned =>
                      /\ Len(log) = 2 <=> notFound
                      /\ ~notFound =>
                            /\ out.err = first.err
                            /\ out.status = first.status
                            /\ out.value <=> first.err = "nil"

\* The insert path, for a record that came with another id.
C14_Witness ==
    \E p \in Callers :
        /\ api[p] = "Upsert"
        /\ apiResult[p].returned
        /\ apiResult[p].err = "nil"
        /\ Len(apiLog[p]) = 2
        /\ apiLog[p][1].bodyId = "other"
        /\ apiLog[p][2].bodyId = "given"

\* C15 (UpsertSpec): when callers upsert the same absent id concurrently,
\* at most one of them issues an insert.
C15_AtomicUpsert ==
    Cardinality({p \in Callers :
                    \E i \in 1..Len(apiLog[p]) : apiLog[p][i].op = "Insert"})
        <= 1

(* ------------------------- claims C21 .. C30 --------------------------- *)

\* C21 (FrameSpec): once the constructor has returned the client, no step
\* changes its base URL, API key, retry flag, max-retries value or format;
\* of its fields only the token and the rate-limit snapshot change.
C21_ConfigFrozen ==
    [][clientState = "ready" =>
          /\ baseURL' = baseURL
          /\ apiKey' = apiKey
          /\ shouldRetry' = shouldRetry
          /\ maxRetries' = maxRetries
          /\ format' = format]_vars

\* A client whose token and snapshot have both changed since construction.
C21_Witness ==
    /\ clientState = "ready"
    /\ token = Whole(1)
    /\ rateLimitInfo = C16_Snapshot(FullA)
    /\ baseURL \in BaseURLs
    /\ apiKey \in APIKeys
    /\ ~shouldRetry
    /\ maxRetries = 1
    /\ format = JSON

\* n < 1, for a page number or size as the application passed it.
C22_BelowOne(n) == n.neg \/ n.mag = <<>>

\* What C22 says of the Paginate call caller p made.
C22_AsClaimed(p) ==
    LET page == pageArgs[p].page
        pageSize == pageArgs[p].pageSize
    IN  IF C22_BelowOne(page) \/ C22_BelowOne(pageSize)
        THEN /\ apiResult[p].returned
             /\ apiResult[p].err \in {"PageError", "PageSizeError"}
             /\ apiLog[p] = <<>>
             /\ sentTok[p] = <<>>
             /\ pc[p] = "idle"
             /\ ~query[p].built
        ELSE /\ Len(apiLog[p]) = 1
             /\ apiLog[p][1].op = "Find"
             /\ query[p].built
             /\ query[p].limit = pageSize
             /\ query[p].skip = GoInt(FALSE, Mul(Pred(page.mag), pageSize.mag))
             /\ page.mag = <<1>> => query[p].skip.mag = <<>>

\* C22 (PageSpec): Paginate called with page < 1 or pageSize < 1 has
\* returned an error and made no request; otherwise it makes one Find whose
\* query has limit = pageSize and skip = (page - 1) * pageSize.
C22_PaginateQuery ==
    \A p \in Callers : pageArgs[p].called => C22_AsClaimed(p)

\* The part of C22 that holds: pages up to MaxPage, whose offsets are far
\* from the end of the int range.
C22_SmallPages ==
    \A p \in Callers :
        (pageArgs[p].called /\ Len(pageArgs[p].page.mag) < IntWidth - 3)
            => C22_AsClaimed(p)

\* Every call has sent at most limit + 1 requests, one per attempt number,
\* and its attempt counter is at most limit.
C23_Bounded(limit) ==
    \A p \in Callers :
        role[p] = "request" =>
            /\ Len(sentTok[p]) <= limit + 1
            /\ attempt[p] \in 0..limit
            /\ Len(sentTok[p]) <= attempt[p] + 1

\* While a call runs, a step leaves its attempt counter or adds one to it,
\* whichever of the retry paths or the replay it takes.
C23_Monotone ==
    [][\A p \in Callers :
          (role[p] = "request" /\ pc[p] # "done") =>
              attempt'[p] \in {attempt[p], attempt[p] + 1}]_vars

\* C23 as stated (Spec): whatever the server answers and whatever the
\* configuration, a call sends at most maxRetries + 1 requests, and the
\* one attempt counter only increases and never exceeds maxRetries.
C23_SharedCounter == [](C23_Bounded(maxRetries)) /\ C23_Monotone

\* C23 amended (Spec): the same when maxRetries is not negative; with a
\* negative maxRetries the counter reaches at most 1 (the replay after a
\* refresh) and at most two requests are sent.
C23_SharedCounterFromZero ==
    [](C23_Bounded(IF maxRetries < 0 THEN 1 ELSE maxRetries)) /\ C23_Monotone

\* The replay, a 429 retry and a transport error use up the same counter.
C23_Witness ==
    \E p \in Callers :
        /\ pc[p] = "done"
        /\ maxRetries = 2
        /\ attempt[p] = 2
        /\ Len(sentTok[p]) = 3
        /\ hist[p][1].status = StatusUnauthorized
        /\ hist[p][2].status = StatusTooManyRequests
        /\ hist[p][3].status = 0
        /\ result[p] = "TransportError"

\* n seconds, as a number of nanoseconds
C24_Seconds(n) == GoInt(FALSE, Mul(n, Bits(1000000000)))

\* The seconds a 429 asks for: its Retry-After value, 60 when that is
\* absent or no integer, and no time at all for a negative value.
C24_RetryAfter(h) ==
    CASE h = <<>> -> Bits(60)
      [] h = <<"2">> -> Bits(2)
      [] h = <<"1", "x">> -> Bits(60)
      [] h = <<"-", "1">> -> <<>>
      [] OTHER -> C11_Large.mag

C24_AfterTransportError == C24_Seconds(Bits(3))
C24_AfterUnavailable == C24_Seconds(Bits(10))
C24_AfterRateLimit ==
    [h \in RetryAfterValues \cup {<<>>} |-> C24_Seconds(C24_RetryAfter(h))]

\* The sleep that precedes the retry of response r: none for the replay
\* after an authentication failure.
C24_Pause(r) ==
    IF r.status = 0 THEN <<C24_AfterTransportError>>
    ELSE IF r.status = StatusServiceUnavailable THEN <<C24_AfterUnavailable>>
    ELSE IF r.status = StatusTooManyRequests
    THEN <<C24_AfterRateLimit[r.retryAfter]>>
    ELSE <<>>

\* The sleeps before the retries of the first n responses of h.
RECURSIVE C24_Pauses(_, _)
C24_Pauses(h, n) ==
    IF n = 0 THEN <<>> ELSE C24_Pauses(h, n - 1) \o C24_Pause(h[n])

C24_SlowDown ==
    [Resp(StatusTooManyRequests, "slow down") EXCEPT !.retryAfter = <<"2">>]

\* maxRetries = 3, two 429 with Retry-After 2, then a 200: success after
\* two sleeps of 2 seconds.
C24_Scenario ==
    \A p \in Callers :
        (/\ maxRetries = 3
         /\ hist[p] = <<C24_SlowDown, C24_SlowDown, Resp(StatusOK, "plain")>>)
            => /\ pc[p] = "done"
               /\ result[p] = "ok"
               /\ sleeps[p] = <<C24_Seconds(Bits(2)), C24_Seconds(Bits(2))>>

\* A call has made attempt[p] retries, of its first attempt[p] responses.
C24_Retried(p) == IF attempt[p] < Len(hist[p]) THEN attempt[p] ELSE Len(hist[p])

\* C24 as stated (Spec): the sleeps of a call are, in order, those of the
\* responses it has retried: 3 seconds after a transport error, 10 seconds
\* after a 503, the retry-after value in seconds after a 429 and none
\* before the replay that follows an authentication failure; and two 429
\* with Retry-After 2 followed by a 200 give success after 4 seconds of
\* sleep when maxRetries = 3.
C24_SleepsBeforeRetry ==
    /\ \A p \in Callers : sleeps[p] = C24_Pauses(hist[p], C24_Retried(p))
    /\ C24_Scenario

\* A retry-after value whose nanoseconds fit the int64 of a time.Duration.
C24_Fits(r) == Len(C24_AfterRateLimit[r.retryAfter].mag) < IntWidth

\* C24 for the calls that met no Retry-After value beyond 9223372036
\* seconds (Spec): these sleep as stated.
C24_SleepsWithinDuration ==
    /\ \A p \in Callers :
           (\A i \in 1..Len(hist[p]) : C24_Fits(hist[p][i]))
               => sleeps[p] = C24_Pauses(hist[p], C24_Retried(p))
    /\ C24_Scenario

\* The scenario of C24 has happened.
C24_Witness ==
    \E p \in Callers :
        /\ maxRetries = 3
        /\ hist[p] = <<C24_SlowDown, C24_SlowDown, Resp(StatusOK, "plain")>>
        /\ result[p] = "ok"

\* A 429 with Retry-After 9223372037 was retried without any sleep.
C24_NoSleep ==
    \E p \in Callers :
        /\ Len(hist[p]) = 2
        /\ hist[p][1].status = StatusTooManyRequests
        /\ hist[p][1].retryAfter \notin {<<>>, <<"2">>, <<"1", "x">>, <<"-", "1">>}
        /\ sleeps[p] = <<Zero>>

C25_Readable2xx(r) == IsSuccess(r) /\ r.body # "unreadable"

\* What call p has returned, if it has: a body or an error, never both,
\* and the one of its last attempt.
C25_Outcome(p) ==
    IF pc[p] # "done"
    THEN result[p] = "none" /\ respBody[p] = "nil"
    ELSE /\ result[p] # "none"
         /\ (result[p] = "ok") = (respBody[p] # "nil")
         /\ \A i \in 1..(Len(hist[p]) - 1) : ~C25_Readable2xx(hist[p][i])
         /\ result[p] = "ok" =>
                /\ hist[p] # <<>>
                /\ C25_Readable2xx(Last(hist[p]))
                /\ respBody[p] = Last(hist[p]).body
         /\ result[p] \in {"HTTPError", "RateLimitError", "TransportError",
                           "ReadError", "AuthFailedAfterRefresh"} =>
                /\ hist[p] # <<>>
                /\ ~C25_Readable2xx(Last(hist[p]))
                /\ result[p] = "HTTPError" =>
                       /\ errStatus[p] = Last(hist[p]).status
                       /\ errInfo[p].message = Last(hist[p]).body
                /\ result[p] = "RateLimitError" =>
                       Last(hist[p]).status = StatusTooManyRequests
                /\ result[p] = "TransportError" => Last(hist[p]) = NoResponse
                /\ result[p] = "ReadError" =>
                       Last(hist[p]).body = "unreadable"
                /\ result[p] = "AuthFailedAfterRefresh" =>
                       IsAuthFailure(Last(hist[p]))

\* What a call has returned stays as it is until the caller takes it.
C25_Once ==
    [][\A p \in Callers :
          (pc[p] = "done" /\ pc'[p] = "done") =>
              /\ result'[p] = result[p]
              /\ respBody'[p] = respBody[p]]_vars

\* C25 (LiveSpec): every call that has begun ends, whatever the server
\* answers on each attempt; it returns one outcome, either a body and no
\* error or an error and no body, and that outcome is the one of its last
\* attempt: the responses before it were failures and none of them was
\* returned.
C25_Terminates ==
    /\ [](\A p \in Callers : C25_Outcome(p))
    /\ C25_Once
    /\ \A p \in Callers : (pc[p] \notin {"idle", "done"}) ~> (pc[p] = "done")

\* A call has returned the body of its third response, after a transport
\* error and a 503.
C25_Witness ==
    \E p \in Callers :
        /\ pc[p] = "done"
        /\ Len(hist[p]) = 3
        /\ hist[p][1] = NoResponse
        /\ hist[p][2].status = StatusServiceUnavailable
        /\ result[p] = "ok"
        /\ respBody[p] = "plain"

\* The calls that have returned the body of a 2xx response with all three
\* rate-limit headers.
C26_Completed ==
    {p \in Callers : /\ pc[p] = "done"
                     /\ result[p] = "ok"
                     /\ HasAllThree(Last(hist[p]).rl)}

\* C26 (SnapshotSpec): the snapshot is never a combination of fields of
\* different responses: it is the whole triple of the 2xx response handled
\* last among those with all three headers, and when every goroutine has
\* completed such a call it is the triple of one of their responses.
C26_LastWriterWins ==
    /\ rateLimitInfo.set =>
           rateLimitInfo \in {C16_Snapshot(FullA), C16_Snapshot(FullB)}
    /\ lastReadFull # NoRateLimit => rateLimitInfo = C16_Snapshot(lastReadFull)
    /\ C26_Completed = Callers =>
           \E p \in Callers : rateLimitInfo = C16_Snapshot(Last(hist[p]).rl)

\* Two calls that both began before any snapshot was written have
\* completed with different triples; the snapshot is that of the first
\* goroutine, whose response was handled last.
C26_Witness ==
    /\ C26_Completed = Callers
    /\ \A p \in Callers : start[p].rl = NoSnapshot
    /\ Last(hist[1]).rl = FullA
    /\ \A p \in Callers \ {1} : Last(hist[p]).rl = FullB
    /\ rateLimitInfo = C16_Snapshot(FullA)

\* The i-th response of call p, a 500, was handled as an authentication
\* failure: on attempt 0 a refresh was started, and the call went on to a
\* replay unless the refresh failed; on a later attempt the call ended
\* with the authentication error and no refresh.
C27_AsAuthFailure(p, i) ==
    IF i = 1
    THEN /\ refreshLog[p] = <<0>>
         /\ pc[p] = "done" /\ Len(hist[p]) = 1 => result[p] = "RefreshFailed"
         /\ Len(hist[p]) > 1 => Len(sentTok[p]) > 1 /\ attempt[p] >= 1
    ELSE /\ i = Len(hist[p])
         /\ pc[p] = "done"
         /\ result[p] = "AuthFailedAfterRefresh"
         /\ errStatus[p] = 500
         /\ \A j \in 1..Len(refreshLog[p]) : refreshLog[p][j] < i - 1

\* ... was returned as an HTTPError with status 500, with no refresh.
C27_AsHTTPError(p, i) ==
    /\ i = Len(hist[p])
    /\ pc[p] = "done"
    /\ result[p] = "HTTPError"
    /\ errStatus[p] = 500
    /\ \A j \in 1..Len(refreshLog[p]) : refreshLog[p][j] < i - 1

\* C27 (Spec): a 500 response is handled as an authentication failure
\* (refresh and replay on attempt 0, terminal authentication error later)
\* when its body contains "Invalid token", and otherwise ends the call
\* with an HTTPError of status 500 and without a refresh.
C27_InvalidTokenMarker ==
    \A p \in Callers : \A i \in 1..Len(hist[p]) :
        (hist[p][i].status = 500 /\ hist[p][i].body # "unreadable") =>
            IF hist[p][i].body = "invalid_token"
            THEN C27_AsAuthFailure(p, i) /\ ~C27_AsHTTPError(p, i)
            ELSE C27_AsHTTPError(p, i) /\ ~C27_AsAuthFailure(p, i)

\* A 500 with the marker was answered by a refresh and a replay, and the
\* replay met a 500 without the marker.
C27_Witness ==
    \E p \in Callers :
        /\ Len(hist[p]) = 2
        /\ hist[p][1] = Resp(StatusInternalServerError, "invalid_token")
        /\ hist[p][2] = Resp(StatusInternalServerError, "plain")
        /\ refreshLog[p] = <<0>>
        /\ result[p] = "HTTPError"

\* A transport error, a 429 or a 503 whose body could be read
C28_Retryable(r) ==
    \/ r = NoResponse
    \/ /\ r.status \in {StatusTooManyRequests, StatusServiceUnavailable}
       /\ r.body # "unreadable"

C28_Terminal(p, r) ==
    /\ pc[p] = "done"
    /\ result[p] = CASE r.status = 0 -> "TransportError"
                     [] r.status = StatusTooManyRequests -> "RateLimitError"
                     [] OTHER -> "HTTPError"
    /\ attempt[p] = Len(hist[p]) - 1

\* C28 (Spec): with ShouldRetry = false a transport error, a 429 or a 503
\* ends the call on the attempt it occurs, with no sleep and no further
\* send.  The call sends at most two requests, and the second one only as
\* the replay that follows an authentication failure on attempt 0 and one
\* token refresh.
C28_NoRetry ==
    ~shouldRetry =>
        \A p \in Callers :
            /\ sleeps[p] = <<>>
            /\ Len(sentTok[p]) <= 2
            /\ Len(refreshLog[p]) <= 1
            /\ Len(sentTok[p]) = 2 =>
                   IsAuthFailure(hist[p][1]) /\ refreshLog[p] = <<0>>
            /\ \A i \in 1..Len(hist[p]) :
                   C28_Retryable(hist[p][i]) =>
                       i = Len(hist[p]) /\ Len(sentTok[p]) = i
                       /\ C28_Terminal(p, hist[p][i])

\* Without retries: a 401 on attempt 0, a refresh, and a replay that ended
\* with the 429 it met.
C28_Witness ==
    \E p \in Callers :
        /\ ~shouldRetry
        /\ maxRetries = 3
        /\ Len(hist[p]) = 2
        /\ hist[p][1].status = StatusUnauthorized
        /\ hist[p][2].status = StatusTooManyRequests
        /\ refreshLog[p] = <<0>>
        /\ Len(sentTok[p]) = 2
        /\ result[p] = "RateLimitError"

\* Call p failed on every attempt with the same retryable outcome k and
\* has returned.
C29_AlwaysFails(p, k) ==
    /\ pc[p] = "done"
    /\ hist[p] # <<>>
    /\ \A i \in 1..Len(hist[p]) :
          hist[p][i].status = k /\ hist[p][i].body # "unreadable"

C29_RetryableOutcomes == {0, StatusTooManyRequests, StatusServiceUnavailable}

\* MaxRetries = 0 gives the client that MaxRetries = 3 gives, and with
\* ShouldRetry = true its always failing call is sent 4 times.
C29_ZeroIsThree ==
    clientState = "ready" =>
        /\ configMaxRetries \in {0, 3} => maxRetries = 3
        /\ (configMaxRetries = 0 /\ shouldRetry) =>
               \A p \in Callers : \A k \in C29_RetryableOutcomes :
                   C29_AlwaysFails(p, k) => Len(sentTok[p]) = 4

\* The client has ended a call on its first attempt although the outcome
\* of that attempt was a retryable one.
C29_SingleAttempt ==
    \E p \in Callers : \E k \in C29_RetryableOutcomes :
        C29_AlwaysFails(p, k) /\ Len(sentTok[p]) = 1

\* C29 as stated (ConstructSpec): a client constructed with MaxRetries = 0
\* is the client constructed with MaxRetries = 3, its always failing call
\* is sent 4 times when ShouldRetry = true, and only a client with
\* ShouldRetry = false makes a single attempt.
C29_DefaultRetries ==
    /\ C29_ZeroIsThree
    /\ C29_SingleAttempt => ~shouldRetry

\* C29 amended (ConstructSpec): the same, but a single attempt is also
\* what a client with a negative MaxRetries makes.
C29_DefaultRetriesOrNegative ==
    /\ C29_ZeroIsThree
    /\ C29_SingleAttempt => (~shouldRetry \/ configMaxRetries < 0)

\* A client constructed with MaxRetries = 0 and ShouldRetry = true has sent
\* a call 4 times, to a server that was unavailable each time.
C29_Witness ==
    \E p \in Callers :
        /\ configMaxRetries = 0
        /\ shouldRetry
        /\ C29_AlwaysFails(p, StatusServiceUnavailable)
        /\ Len(sentTok[p]) = 4
        /\ result[p] = "HTTPError"

C30_Failed(c) == c.op = "FindAll" /\ c.err \in {"SendError", "ReadError"}

\* What the last FindAll did: it wrote to a connection only, and when it
\* found none it dialled first, with the token of the WebSocketClient, and
\* wrote only if the dial had succeeded; a failed send or read has cleared
\* the connection.
C30_Call ==
    wsCall.op = "FindAll" =>
        /\ \A i \in 1..Len(wsCall.events) :
               wsCall.events[i].kind = "write" =>
                   wsCall.events[i].conn # "nil"
        /\ C30_Failed(wsCall) => ws.conn = "nil"
        /\ wsCall.entry = "nil" =>
               /\ wsCall.events # <<>>
               /\ wsCall.events[1].kind = "dial"
               /\ wsCall.events[1].token = ws.token
               /\ wsCall.err = "ConnectError" <=> Len(wsCall.events) = 1
               /\ Len(wsCall.events) > 1 =>
                      /\ wsCall.events[2].kind = "write"
                      /\ wsCall.events[2].conn = "open"
        /\ wsCall.entry # "nil" =>
               \A i \in 1..Len(wsCall.events) :
                   wsCall.events[i].kind # "dial"

\* C30 (WsSpec): FindAll never sends on a cleared connection.  When its
\* send or its read fails it returns an error and leaves ws.conn cleared;
\* the FindAll after it finds the connection cleared and dials before it
\* sends, with the token that WebSocket() copied from the client, which
\* no later token refresh changes.
C30_Reconnects ==
    /\ [](C30_Call)
    /\ [][(wsCall'.turn # wsCall.turn /\ wsCall'.op = "FindAll") =>
              /\ wsCall'.entry = ws.conn
              /\ C30_Failed(wsCall) =>
                     /\ wsCall'.entry = "nil"
                     /\ wsCall'.events[1].kind = "dial"
                     /\ wsCall'.events[1].token = ws.token]_vars
    /\ [][IF ws.exists THEN ws'.exists /\ ws'.token = ws.token
          ELSE ws'.exists => ws'.token = token]_vars

\* After a failure, a FindAll has dialled with the token of WebSocket()
\* although the client has a newer token by now, and has sent and read.
C30_Witness ==
    /\ wsCall.op = "FindAll"
    /\ wsCall.entry = "nil"
    /\ Len(wsCall.events) = 3
    /\ wsCall.err = "none"
    /\ ws.token = Whole(0)
    /\ token = Whole(1)
    /\ ws.conn = "open"
====
